---- MODULE Spec2Model ----
(***************************************************************************)
(* The prompt relay of the cloud cost dashboard backend: an Express        *)
(* application whose POST /api/ai/<route> handlers validate the request    *)
(* body, build a prompt, call textOnlyModel.generateContent and map the    *)
(* result (or its failure) to a JSON response.                             *)
(*                                                                         *)
(* The repository holds three revisions of the same file:                  *)
(*   "r1"  src/app.js lines 1-243      (4 routes)                          *)
(*   "r2"  src/app.js lines 245-1190   (20 routes)                         *)
(*   "r3"  src/unnamed/part_000        (9 routes)                          *)
(* The revision that runs is fixed when the process starts.                *)
(***************************************************************************)
EXTENDS Integers, Sequences, FiniteSets, TLC

VARIABLES
    rev,      \* the revision of the file that is running
    build,    \* what the installed Express/Node do with a rejected handler promise,
              \* once a handler promise was rejected
    apiKey,   \* whether process.env.GEMINI_API_KEY is set
    proc,     \* "starting", "listening", "exited" (process.exit(1)) or "crashed"
    pc,       \* per request: where its handler is
    route,    \* per request: the route it was POSTed to
    body,     \* per request: req.body
    calls,    \* per request: the generateContent calls its handler made, in order
    result,   \* per request: how its generateContent call settled
    sent,     \* per request: the responses its handler sent, in order
    textOnlyModel,  \* the model handle of the module, shared by all handlers
    probes    \* per GET path: the response to the last GET of it, if any

vars ==
    <<rev, build, apiKey, proc, pc, route, body, calls, result, sent, textOnlyModel,
      probes>>

(***************************************************************************)
(* Bounds of the model.                                                    *)
(***************************************************************************)
MaxReq == 1

Reqs == 1..MaxReq

(***************************************************************************)
(* JavaScript values, as far as JSON bodies and the handlers need them.    *)
(* Numbers are held in thousandths (Num(12500) is 12.5).                   *)
(***************************************************************************)
Undef == [t |-> "undefined"]

Null == [t |-> "null"]

Str(s) == [t |-> "string", s |-> s]

Num(n) == [t |-> "number", n |-> n]

Bool(b) == [t |-> "boolean", b |-> b]

Arr(a) == [t |-> "array", a |-> a]

Obj(f) == [t |-> "object", f |-> f]

EmptyObj == Obj(<<>>)

\* ToBoolean: the test of !x, x && y, x || y and x ? a : b.
Truthy(v) ==
    CASE v.t = "undefined" -> FALSE
      [] v.t = "null"      -> FALSE
      [] v.t = "string"    -> v.s # ""
      [] v.t = "number"    -> v.n # 0
      [] v.t = "boolean"   -> v.b
      [] OTHER             -> TRUE

\* Property read o.k on a value that is not null or undefined; a key that
\* the value does not have reads as undefined.
Get(o, k) ==
    IF o.t = "object" /\ k \in DOMAIN o.f THEN o.f[k] ELSE Undef

\* Object.keys(v).length
KeyCount(v) ==
    CASE v.t = "object" -> Cardinality(DOMAIN v.f)
      [] v.t = "array"  -> Len(v.a)
      [] v.t = "string" -> Len(v.s)
      [] OTHER          -> 0

\* v.length
LengthOf(v) ==
    CASE v.t = "array"  -> Num(1000 * Len(v.a))
      [] v.t = "string" -> Num(1000 * Len(v.s))
      [] OTHER          -> Get(v, "length")

\* a || b
OrElse(a, b) == IF Truthy(a) THEN a ELSE b

\* res.json(obj) serialises with JSON.stringify, which leaves out every key
\* whose value is undefined.
DropUndefined(f) == [k \in {x \in DOMAIN f : f[x] # Undef} |-> f[k]]

\* JSON.stringify(v, null, 2): undefined for undefined, else the JSON text of v.
JSONStringify(v) ==
    IF v = Undef THEN Undef ELSE [t |-> "string", s |-> "JSON", json |-> v]

(***************************************************************************)
(* String conversions: ${v} in a template literal, and Number.toFixed.   *)
(***************************************************************************)
Digit(d) ==
    CASE d = 0 -> "0" [] d = 1 -> "1" [] d = 2 -> "2" [] d = 3 -> "3"
      [] d = 4 -> "4" [] d = 5 -> "5" [] d = 6 -> "6" [] d = 7 -> "7"
      [] d = 8 -> "8" [] OTHER -> "9"

RECURSIVE Digits(_)
Digits(k) == IF k < 10 THEN Digit(k) ELSE Digits(k \div 10) \o Digit(k % 10)

\* Number.prototype.toString of a non-negative number held in thousandths.
NumStr(n) ==
    LET i == n \div 1000
        f == n % 1000
    IN  IF f = 0 THEN Digits(i)
        ELSE IF f % 100 = 0 THEN Digits(i) \o "." \o Digit(f \div 100)
        ELSE IF f % 10 = 0
             THEN Digits(i) \o "." \o Digit(f \div 100) \o Digit((f \div 10) % 10)
        ELSE Digits(i) \o "." \o Digit(f \div 100) \o Digit((f \div 10) % 10)
                       \o Digit(f % 10)

\* Number.prototype.toFixed(2) of a non-negative number held in thousandths:
\* rounded to hundredths, always two decimals.
ToFixed2(n) ==
    LET h == (n + 5) \div 10
    IN  Digits(h \div 100) \o "." \o Digit((h \div 10) % 10) \o Digit(h % 10)

RECURSIVE JoinStr(_)
JoinStr(ss) ==
    IF Len(ss) = 0 THEN ""
    ELSE IF Len(ss) = 1 THEN ss[1]
    ELSE ss[1] \o "," \o JoinStr(Tail(ss))

\* ToString of the language, as ${v} applies it.
RECURSIVE JsString(_)
JsString(v) ==
    CASE v.t = "undefined" -> "undefined"
      [] v.t = "null"      -> "null"
      [] v.t = "string"    -> v.s
      [] v.t = "number"    -> NumStr(v.n)
      [] v.t = "boolean"   -> IF v.b THEN "true" ELSE "false"
      [] v.t = "array"     ->
            JoinStr([i \in 1..Len(v.a) |->
                        IF v.a[i].t \in {"undefined", "null"} THEN ""
                        ELSE JsString(v.a[i])])
      [] OTHER             -> "[object Object]"

(***************************************************************************)
(* The route table of each revision.                                       *)
(***************************************************************************)
Revisions == {"r1", "r2", "r3"}

CoreRoutes == {"insights", "estimate", "chat"}

R1Routes == CoreRoutes \cup {"recommendation"}

R3Routes ==
    R1Routes \cup {"explain-anomaly", "resource-optimization", "troubleshoot",
                   "architecture-assistant", "security-compliance"}

R2Routes ==
    R3Routes \cup {"generate-playbook", "iam-simplifier", "dr-planner",
                   "explain-cloud", "teach-me-setup", "service-decision",
                   "security-policy-explainer", "generate-cloud-course",
                   "interactive-cloud-lab", "flashcards-quizzes",
                   "cloud-career-guide"}

RoutesOf(rv) ==
    CASE rv = "r1" -> R1Routes
      [] rv = "r3" -> R3Routes
      [] OTHER     -> R2Routes

\* The key under which res.json sends the model's text.
OutputKey(rt) ==
    CASE rt = "insights"                  -> "insights"
      [] rt = "estimate"                  -> "estimate"
      [] rt = "chat"                      -> "answer"
      [] rt = "recommendation"            -> "recommendation"
      [] rt = "explain-anomaly"           -> "explanation"
      [] rt = "resource-optimization"     -> "optimizationPlan"
      [] rt = "troubleshoot"              -> "troubleshootResponse"
      [] rt = "architecture-assistant"    -> "architectureGuidance"
      [] rt = "security-compliance"       -> "securityComplianceResponse"
      [] rt = "generate-playbook"         -> "playbook"
      [] rt = "iam-simplifier"            -> "iamGuidance"
      [] rt = "dr-planner"                -> "drPlan"
      [] rt = "explain-cloud"             -> "explanation"
      [] rt = "teach-me-setup"            -> "learningContent"
      [] rt = "service-decision"          -> "serviceDecision"
      [] rt = "security-policy-explainer" -> "policyExplanation"
      [] rt = "generate-cloud-course"     -> "courseContent"
      [] rt = "interactive-cloud-lab"     -> "labContent"
      [] rt = "flashcards-quizzes"        -> "learningContent"
      [] OTHER                            -> "careerGuideContent"

\* The error text of the 400 a promptContext route answers with.
ValidationMessage(rt) ==
    CASE rt = "recommendation"            -> "Prompt context for recommendation is required."
      [] rt = "explain-anomaly"           -> "Prompt context for anomaly explanation is required."
      [] rt = "resource-optimization"     -> "Prompt context for resource optimization is required."
      [] rt = "troubleshoot"              -> "Prompt context for troubleshooting is required."
      [] rt = "architecture-assistant"    -> "Prompt context for architecture assistant is required."
      [] rt = "security-compliance"       -> "Prompt context for security and compliance is required."
      [] rt = "generate-playbook"         -> "Prompt context for playbook generation is required."
      [] rt = "iam-simplifier"            -> "Prompt context for IAM simplification is required."
      [] rt = "dr-planner"                -> "Prompt context for DR planning is required."
      [] rt = "explain-cloud"             -> "Prompt context for cloud explanation is(...)"
      [] rt = "teach-me-setup"            -> "Prompt context for learning content is required."
      [] rt = "service-decision"          -> "Prompt context for service decision is required."
      [] rt = "security-policy-explainer" -> "Prompt context for security policy explanation/generation is required."
      [] rt = "generate-cloud-course"     -> "Prompt context for course generation is required."
      [] rt = "interactive-cloud-lab"     -> "Prompt context for interactive cloud lab is required."
      [] rt = "flashcards-quizzes"        -> "Prompt context for flashcards and quizzes is required."
      [] OTHER                            -> "Prompt context for cloud career guide is required."

\* The error text of the 500 a route's catch block answers with.
ErrorText(rt) ==
    CASE rt = "insights"                  -> "Failed to get AI insights from Gemini. Check backend logs for details."
      [] rt = "estimate"                  -> "Failed to get cost estimate from Gemini."
      [] rt = "chat"                      -> "Failed to get AI chat response."
      [] rt = "recommendation"            -> "Failed to generate AI recommendation."
      [] rt = "explain-anomaly"           -> "Failed to generate AI anomaly explanation."
      [] rt = "resource-optimization"     -> "Failed to generate AI resource optimization plan."
      [] rt = "troubleshoot"              -> "Failed to generate AI troubleshooting response."
      [] rt = "architecture-assistant"    -> "Failed to generate AI architectural guidance."
      [] rt = "security-compliance"       -> "Failed to generate AI security/compliance response."
      [] rt = "generate-playbook"         -> "Failed to generate AI operational playbook."
      [] rt = "iam-simplifier"            -> "Failed to generate AI IAM simplification guidance."
      [] rt = "dr-planner"                -> "Failed to generate AI DR plan."
      [] rt = "explain-cloud"             -> "Failed to generate AI cloud explanation."
      [] rt = "teach-me-setup"            -> "Failed to generate AI learning content."
      [] rt = "service-decision"          -> "Failed to generate AI service decision."
      [] rt = "security-policy-explainer" -> "Failed to generate AI security policy response."
      [] rt = "generate-cloud-course"     -> "Failed to generate AI cloud course."
      [] rt = "interactive-cloud-lab"     -> "Failed to generate AI interactive cloud lab."
      [] rt = "flashcards-quizzes"        -> "Failed to generate AI flashcards or quizzes."
      [] OTHER                            -> "Failed to generate AI cloud career guide."

\* GenerationConfig as it would be had explain-anomaly kept the options of
\* recommendation, from which its handler was copied.
GenerationConfig_CopiedOptions(rv, rt) ==
    CASE rt = "insights"                  -> [maxOutputTokens |-> 200]
      [] rt = "estimate"                  -> [maxOutputTokens |-> 150]
      [] rt = "chat" /\ rv = "r1"         -> [maxOutputTokens |-> 250]
      [] rt = "chat" /\ rv # "r1"         -> [maxOutputTokens |-> 300, temperature |-> 5]
      [] rt = "recommendation"            -> [maxOutputTokens |-> 50,  temperature |-> 2]
      [] rt = "explain-anomaly"           -> [maxOutputTokens |-> 50,  temperature |-> 2]
      [] rt = "resource-optimization"     -> [maxOutputTokens |-> 200, temperature |-> 3]
      [] rt = "troubleshoot"              -> [maxOutputTokens |-> 250, temperature |-> 4]
      [] rt = "architecture-assistant"    -> [maxOutputTokens |-> 400, temperature |-> 7]
      [] rt = "security-compliance"       -> [maxOutputTokens |-> 200, temperature |-> 3]
      [] rt = "generate-playbook"         -> [maxOutputTokens |-> 600, temperature |-> 6]
      [] rt = "iam-simplifier"            -> [maxOutputTokens |-> 500, temperature |-> 4]
      [] rt = "dr-planner"                -> [maxOutputTokens |-> 500, temperature |-> 6]
      [] rt = "explain-cloud"             -> [maxOutputTokens |-> 500, temperature |-> 5]
      [] rt = "teach-me-setup"            -> [maxOutputTokens |-> 800, temperature |-> 5]
      [] rt = "service-decision"          -> [maxOutputTokens |-> 600, temperature |-> 5]
      [] rt = "security-policy-explainer" -> [maxOutputTokens |-> 700, temperature |-> 4]
      [] rt = "generate-cloud-course"     -> [maxOutputTokens |-> 800, temperature |-> 6]
      [] rt = "interactive-cloud-lab"     -> [maxOutputTokens |-> 700, temperature |-> 6]
      [] rt = "flashcards-quizzes"        -> [maxOutputTokens |-> 700, temperature |-> 6]
      [] OTHER                            -> [maxOutputTokens |-> 800, temperature |-> 7]

\* generationConfig of the route's generateContent call; temperature is held
\* in tenths, and a route that sets none has no such field.
GenerationConfig(rv, rt) ==
    CASE rt = "insights"                  -> [maxOutputTokens |-> 200]
      [] rt = "estimate"                  -> [maxOutputTokens |-> 150]
      [] rt = "chat" /\ rv = "r1"         -> [maxOutputTokens |-> 250]
      [] rt = "chat" /\ rv # "r1"         -> [maxOutputTokens |-> 300, temperature |-> 5]
      [] rt = "recommendation"            -> [maxOutputTokens |-> 50,  temperature |-> 2]
      [] rt = "explain-anomaly"           -> [maxOutputTokens |-> 100, temperature |-> 4]
      [] rt = "resource-optimization"     -> [maxOutputTokens |-> 200, temperature |-> 3]
      [] rt = "troubleshoot"              -> [maxOutputTokens |-> 250, temperature |-> 4]
      [] rt = "architecture-assistant"    -> [maxOutputTokens |-> 400, temperature |-> 7]
      [] rt = "security-compliance"       -> [maxOutputTokens |-> 200, temperature |-> 3]
      [] rt = "generate-playbook"         -> [maxOutputTokens |-> 600, temperature |-> 6]
      [] rt = "iam-simplifier"            -> [maxOutputTokens |-> 500, temperature |-> 4]
      [] rt = "dr-planner"                -> [maxOutputTokens |-> 500, temperature |-> 6]
      [] rt = "explain-cloud"             -> [maxOutputTokens |-> 500, temperature |-> 5]
      [] rt = "teach-me-setup"            -> [maxOutputTokens |-> 800, temperature |-> 5]
      [] rt = "service-decision"          -> [maxOutputTokens |-> 600, temperature |-> 5]
      [] rt = "security-policy-explainer" -> [maxOutputTokens |-> 700, temperature |-> 4]
      [] rt = "generate-cloud-course"     -> [maxOutputTokens |-> 800, temperature |-> 6]
      [] rt = "interactive-cloud-lab"     -> [maxOutputTokens |-> 700, temperature |-> 6]
      [] rt = "flashcards-quizzes"        -> [maxOutputTokens |-> 700, temperature |-> 6]
      [] OTHER                            -> [maxOutputTokens |-> 800, temperature |-> 7]

(***************************************************************************)
(* Errors.  An error object is its message and its response; a         *)
(* TypeError raised by the language carries a message and no response.     *)
(***************************************************************************)
ErrorObj(m, r) == [message |-> m, response |-> r]

TypeError(m) == ErrorObj(Str(m), Undef)

\* The outcome of an evaluation that may throw: a text (the chunks whose
\* concatenation it is), or the error thrown.
Built(chunks) == [threw |-> FALSE, text |-> chunks]

Threw(e) == [threw |-> TRUE, error |-> e]

(***************************************************************************)
(* formatSummaryForGemini: one chunk per prompt += of the source.        *)
(***************************************************************************)
\* v > 0 for the values v.length can be here.
GtZero(v) == v.t = "number" /\ v.n > 0

\* forEach(([service, cost]) => - ${service}: $${cost.toFixed(2)}\n)
\* on one element: destructuring needs an iterable, toFixed a number.
ServiceLine(e) ==
    IF e.t # "array"
    THEN IF e.t = "string"
         THEN Threw(TypeError("cost.toFixed is not a function"))
         ELSE Threw(TypeError("element is not iterable"))
    ELSE LET service == IF Len(e.a) >= 1 THEN e.a[1] ELSE Undef
             cost    == IF Len(e.a) >= 2 THEN e.a[2] ELSE Undef
         IN  IF cost.t # "number"
             THEN Threw(TypeError("cost.toFixed is not a function"))
             ELSE Built(<<"- " \o JsString(service) \o ": $"
                          \o ToFixed2(cost.n) \o "\n">>)

\* The line of one element of topExpensiveResources.
ExpensiveLine(res) ==
    IF res.t \in {"undefined", "null"}
    THEN Threw(TypeError("Cannot read properties of null (reading 'resourceId')"))
    ELSE IF Get(res, "totalCost").t # "number"
    THEN Threw(TypeError("res.totalCost.toFixed is not a function"))
    ELSE Built(<<"- Resource ID: " \o JsString(OrElse(Get(res, "resourceId"), Str("N/A")))
                 \o ", Service: " \o JsString(Get(res, "service"))
                 \o ", Cost: $" \o ToFixed2(Get(res, "totalCost").n)
                 \o ", Usage Types: " \o JsString(Get(res, "usageTypes"))
                 \o ", Occurrences: " \o JsString(Get(res, "occurrences"))
                 \o ", Duration: " \o JsString(Get(res, "durationDays")) \o " days\n">>)

\* The line of one element of idleResources.
IdleLine(res) ==
    IF res.t \in {"undefined", "null"}
    THEN Threw(TypeError("Cannot read properties of null (reading 'resourceId')"))
    ELSE IF Get(res, "totalCost").t # "number"
    THEN Threw(TypeError("res.totalCost.toFixed is not a function"))
    ELSE Built(<<"- Resource ID: " \o JsString(OrElse(Get(res, "resourceId"), Str("N/A")))
                 \o ", Service: " \o JsString(Get(res, "service"))
                 \o ", Cost: $" \o ToFixed2(Get(res, "totalCost").n)
                 \o ", Occurrences: " \o JsString(Get(res, "occurrences"))
                 \o ", Duration: " \o JsString(Get(res, "durationDays")) \o " days\n">>)

\* The callback the forEach of a section is given.
SectionLine(section, e) ==
    CASE section = "serviceCosts"          -> ServiceLine(e)
      [] section = "topExpensiveResources" -> ExpensiveLine(e)
      [] OTHER                             -> IdleLine(e)

\* list.forEach(line) over the lines ls of the elements: the title, the
\* lines and "\n", or the exception of the first element that throws.
ForEach(title, ls) ==
    IF \E i \in 1..Len(ls) : ls[i].threw
    THEN Threw(ls[CHOOSE i \in 1..Len(ls) :
                     ls[i].threw /\ \A j \in 1..(i - 1) : ~ls[j].threw].error)
    ELSE Built(<<title>> \o [i \in 1..Len(ls) |-> ls[i].text[1]] \o <<"\n">>)

\* if (list && list.length > 0) { title; list.forEach(line); "\n" }
\* for list = summary[section].
Section(list, section, title) ==
    IF ~(Truthy(list) /\ GtZero(LengthOf(list))) THEN Built(<<>>)
    ELSE IF list.t # "array" THEN Threw(TypeError("forEach is not a function"))
    ELSE ForEach(title, [i \in 1..Len(list.a) |-> SectionLine(section, list.a[i])])

ServiceTitle == "Top 5 Services by Cost:\n"

ExpensiveTitle == "Top 5 Expensive Individual Resources:\n"

IdleTitle == "Potential Idle/Underutilized Resources (Low Cost/Usage):\n"

TruncationNote == "Note: The provided data was a sample (first 50,000 rows) due to large file size. Comprehensive analysis might require full dataset processing.\n\n"

InsightsHeader == "Analyze the following AWS billing data summary. (...) Keep the overall response **under 200 words**.\n\n"

InsightsClosing == "Based on this summary, provide the most impactful cost-saving actions, (...) Start directly with the summary/recommendations.\n"

\* Prompt as it would be had the note been added whenever the summary has
\* a dataTruncated field, whatever its value.
Prompt_NoteWhenFieldPresent(summary, total, s1, s2, s3) ==
    IF s1.threw THEN s1
    ELSE IF s2.threw THEN s2
    ELSE IF s3.threw THEN s3
    ELSE Built(
        <<InsightsHeader,
          "Overall Billing Period: "
             \o (IF Truthy(total) THEN "Data available" ELSE "No data") \o "\n">>
        \o (IF Truthy(total)
            THEN <<"Total Unblended Cost: $" \o JsString(total) \o "\n\n">>
            ELSE <<>>)
        \o s1.text \o s2.text \o s3.text
        \o (IF Get(summary, "dataTruncated") # Undef THEN <<TruncationNote>> ELSE <<>>)
        \o <<InsightsClosing>>)

\* Prompt as it would be had the period line looked at the lists too:
\* 'Data available' as soon as a section was rendered.
Prompt_DataWhenAnySection(summary, total, s1, s2, s3) ==
    IF s1.threw THEN s1
    ELSE IF s2.threw THEN s2
    ELSE IF s3.threw THEN s3
    ELSE Built(
        <<InsightsHeader,
          "Overall Billing Period: "
             \o (IF Truthy(total) \/ s1.text \o s2.text \o s3.text # <<>>
                 THEN "Data available" ELSE "No data") \o "\n">>
        \o (IF Truthy(total)
            THEN <<"Total Unblended Cost: $" \o JsString(total) \o "\n\n">>
            ELSE <<>>)
        \o s1.text \o s2.text \o s3.text
        \o (IF Truthy(Get(summary, "dataTruncated")) THEN <<TruncationNote>> ELSE <<>>)
        \o <<InsightsClosing>>)

\* The prompt from its chunks: the header, the total, the three sections
\* s1, s2, s3, the truncation note and the closing; the exception of the
\* first section that throws.
Prompt(summary, total, s1, s2, s3) ==
    IF s1.threw THEN s1
    ELSE IF s2.threw THEN s2
    ELSE IF s3.threw THEN s3
    ELSE Built(
        <<InsightsHeader,
          "Overall Billing Period: "
             \o (IF Truthy(total) THEN "Data available" ELSE "No data") \o "\n">>
        \o (IF Truthy(total)
            THEN <<"Total Unblended Cost: $" \o JsString(total) \o "\n\n">>
            ELSE <<>>)
        \o s1.text \o s2.text \o s3.text
        \o (IF Truthy(Get(summary, "dataTruncated")) THEN <<TruncationNote>> ELSE <<>>)
        \o <<InsightsClosing>>)

formatSummaryForGemini(summary) ==
    Prompt(summary, Get(summary, "totalOverallCost"),
           Section(Get(summary, "serviceCosts"), "serviceCosts", ServiceTitle),
           Section(Get(summary, "topExpensiveResources"), "topExpensiveResources",
                   ExpensiveTitle),
           Section(Get(summary, "idleResources"), "idleResources", IdleTitle))

(***************************************************************************)
(* The prompts of the other routes.  A part's text is the chunks of its    *)
(* template literal: fixed text (abridged to its opening words) and the    *)
(* interpolated values.                                                    *)
(***************************************************************************)
TwoPartRoutes ==
    {"recommendation", "explain-anomaly", "resource-optimization", "troubleshoot",
     "architecture-assistant", "security-compliance", "generate-playbook",
     "iam-simplifier", "dr-planner"}

\* The opening words of the route's fixed instruction.
Instruction(rt) ==
    CASE rt = "recommendation"         -> "Provide a **single, extremely concise sentence (...)"
      [] rt = "explain-anomaly"        -> "As an AWS cost forensic analyst, (...)"
      [] rt = "resource-optimization"  -> "As an expert AWS resource optimization specialist, (...)"
      [] rt = "troubleshoot"           -> "As a Senior Cloud Support Engineer for AWS, (...)"
      [] rt = "architecture-assistant" -> "As an expert AWS Solutions Architect, (...)"
      [] rt = "security-compliance"    -> "As an expert AWS Security and Compliance Advisor, (...)"
      [] rt = "generate-playbook"      -> "As a highly experienced AWS DevOps Engineer and SRE, (...)"
      [] rt = "iam-simplifier"         -> "As an expert AWS IAM Security Architect, (...)"
      [] rt = "dr-planner"             -> "As an expert AWS Cloud Resilience Architect, (...)"
      [] rt = "explain-cloud"          -> "As an expert Cloud Infrastructure Interpreter and Consultant, (...)"
      [] rt = "teach-me-setup"         -> "As an expert AI Cloud Tutor, (...) AWS cloud service or concept: "
      [] rt = "service-decision"       -> "As an expert AWS Cloud Service Advisor, (...)"
      [] rt = "generate-cloud-course"  -> "As an expert AI Cloud Curriculum Designer, (...)"
      [] rt = "interactive-cloud-lab"  -> "As an expert AI Cloud Lab Simulator and Virtual Instructor, (...)"
      [] rt = "flashcards-quizzes"     -> "As an expert Cloud Educator, (...)"
      [] OTHER                         -> "As an expert AI Cloud Career Advisor, (...)"

\* The fixed text that introduces the interpolated promptContext.
ContextLabel(rt) ==
    CASE rt = "recommendation"         -> "Opportunity Details: "
      [] rt = "explain-anomaly"        -> "Anomaly Details: "
      [] rt = "resource-optimization"  -> "Opportunity Details: "
      [] rt = "troubleshoot"           -> "User's Problem: "
      [] rt = "architecture-assistant" -> "User's Request: "
      [] rt = "security-compliance"    -> "User's Query: "
      [] rt = "generate-playbook"      -> "Scenario/Task: "
      [] rt = "iam-simplifier"         -> "User's Query/Policy: "
      [] rt = "dr-planner"             -> "User's DR Requirements: "
      [] rt = "explain-cloud"          -> "User's Cloud Configuration/Description:\n"
      [] rt = "teach-me-setup"         -> ""
      [] rt = "service-decision"       -> "User's Query: "
      [] rt = "generate-cloud-course"  -> "Learning Goal: "
      [] rt = "interactive-cloud-lab"  -> "User's Lab Task Request: "
      [] rt = "flashcards-quizzes"     -> "Topic: "
      [] OTHER                         -> "User's Background/Goal: "

\* The fixed text after the interpolated promptContext of a one-part route.
FormatTail(rt) ==
    CASE rt = "explain-cloud"          -> <<>>
      [] rt = "teach-me-setup"         -> <<"Your explanation should cover the following sections clearly: (...)">>
      [] rt = "service-decision"       -> <<"Structure your response clearly with bolded headings (...) Conclude with a clear \"Recommendation:\".">>
      [] rt = "generate-cloud-course"  -> <<"Your course outline should include: (...)">>
      [] rt = "interactive-cloud-lab"  -> <<"Structure your response as a \"Lab Guide\" with: (...)">>
      [] rt = "flashcards-quizzes"     -> <<"Structure your response clearly with bolded headings for each section. (...)">>
      [] OTHER                         -> <<"Structure your response clearly with bolded headings for each section: (...)">>

\* The JSON texts among the request values of this model: the strings that
\* JSON.parse accepts.
PolicyDocument == "{\"Version\":\"2012-10-17\",\"Statement\":[]}"

JsonParses(s) == s \in {"{}", "[]", "5", "0", "true", "false", "null", PolicyDocument}

\* QueryType as it would be had the handler taken only a parsed object for
\* a policy to explain.
QueryType_ObjectsOnly(promptContext) ==
    IF JsString(promptContext) \in {"{}", PolicyDocument}
    THEN "explanation" ELSE "policy_request"

\* security-policy-explainer: JSON.parse(promptContext) decides queryType.
QueryType(promptContext) ==
    IF JsonParses(JsString(promptContext)) THEN "explanation" ELSE "policy_request"

PolicyPrompt(promptContext) ==
    IF QueryType(promptContext) = "explanation"
    THEN <<"As an expert AWS Cloud Security Policy Explainer (IAM/SCP), analyze the following JSON policy. (...)",
           "Policy to explain:\n(json fence)\n" \o JsString(promptContext) \o "\n(fence)",
           "Format your response clearly with bolded headings (e.g., **Policy Summary**, (...)">>
    ELSE <<"As an expert AWS Cloud Security Policy Generator, (...)",
           "User's Policy Request: \"" \o JsString(promptContext) \o "\"",
           "Format your response clearly with bolded headings (e.g., **Policy Intent**, (...)">>

EstimatePrompt(rv, b) ==
    <<"You are an AWS solutions architect and cost estimator.\n",
      IF rv = "r2"
      THEN "A user wants to understand the estimated monthly cost for an TWS service (...)\n"
      ELSE "A user wants to understand the estimated monthly cost for an AWS service (...)\n",
      "\"Estimate the monthly cost for an AWS " \o JsString(Get(b, "resourceType"))
         \o " of size " \o JsString(Get(b, "size"))
         \o " in the " \o JsString(Get(b, "region"))
         \o " region, running for approximately " \o JsString(Get(b, "duration"))
         \o " hours/month.\"\n",
      "Provide a high-level monthly cost estimate in USD. (...)">>

ChatPreamble == "You are an expert AWS Cloud Operations and FinOps Assistant. (...)"

\* ChatPrompt as it would be had the later revisions added the indicator
\* for every csvContext, whether or not it says it has data.
ChatPrompt_IndicatorForAnyContext(rv, b) ==
    LET q   == Get(b, "userQuestion")
        ctx == Get(b, "csvContext")
    IN  IF rv = "r1"
        THEN <<"You are an expert AWS cost optimization assistant.\n",
               "A user has uploaded their AWS billing data. Here is a summary of their data:\n",
               "Total Overall Cost: "
                  \o JsString(OrElse(Get(ctx, "totalOverallCost"), Str("N/A"))) \o "\n",
               "Top Services by Cost: "
                  \o JsString(OrElse(Get(ctx, "topServices"), Str("N/A"))) \o "\n",
               "(Note: This context is based on "
                  \o JsString(Get(ctx, "numRowsProcessed")) \o " rows. "
                  \o (IF Truthy(Get(ctx, "dataTruncated"))
                      THEN "The original CSV was larger, so this is a partial view."
                      ELSE "") \o ")\n",
               "The user is asking the following question about their AWS costs:\n",
               "\"" \o JsString(q) \o "\"\n",
               "Based on the provided billing data summary (...)">>
        ELSE <<ChatPreamble>>
             \o (IF Truthy(ctx)
                 THEN <<"\n\nUser has uploaded AWS billing data. (...) Data exists for "
                          \o JsString(Get(ctx, "numRowsProcessed")) \o " line items.">>
                 ELSE <<>>)
             \o <<"\n\nUser's question: \"" \o JsString(q) \o "\"">>

ChatPrompt(rv, b) ==
    LET q   == Get(b, "userQuestion")
        ctx == Get(b, "csvContext")
    IN  IF rv = "r1"
        THEN <<"You are an expert AWS cost optimization assistant.\n",
               "A user has uploaded their AWS billing data. Here is a summary of their data:\n",
               "Total Overall Cost: "
                  \o JsString(OrElse(Get(ctx, "totalOverallCost"), Str("N/A"))) \o "\n",
               "Top Services by Cost: "
                  \o JsString(OrElse(Get(ctx, "topServices"), Str("N/A"))) \o "\n",
               "(Note: This context is based on "
                  \o JsString(Get(ctx, "numRowsProcessed")) \o " rows. "
                  \o (IF Truthy(Get(ctx, "dataTruncated"))
                      THEN "The original CSV was larger, so this is a partial view."
                      ELSE "") \o ")\n",
               "The user is asking the following question about their AWS costs:\n",
               "\"" \o JsString(q) \o "\"\n",
               "Based on the provided billing data summary (...)">>
        ELSE <<ChatPreamble>>
             \o (IF Truthy(ctx) /\ Truthy(Get(ctx, "hasData"))
                 THEN <<"\n\nUser has uploaded AWS billing data. (...) Data exists for "
                          \o JsString(Get(ctx, "numRowsProcessed")) \o " line items.">>
                 ELSE <<>>)
             \o <<"\n\nUser's question: \"" \o JsString(q) \o "\"">>

\* Parts as it would be had the handlers sent a part of their own (a fixed
\* preamble) before the parts of the route.
Parts_WithPreamble(rv, rt, b, prompt) ==
    LET c == Get(b, "promptContext")
    IN  <<(<<"You are the assistant of the cloud cost dashboard.">>)>>
        \o (CASE rt = "insights" -> <<prompt>>
               [] rt = "estimate" -> <<EstimatePrompt(rv, b)>>
               [] rt = "chat"     -> <<ChatPrompt(rv, b)>>
               [] rt \in TwoPartRoutes ->
                     <<(<<Instruction(rt)>>), (<<ContextLabel(rt) \o JsString(c)>>)>>
               [] rt = "security-policy-explainer" -> <<PolicyPrompt(c)>>
               [] OTHER ->
                     <<(<<Instruction(rt), ContextLabel(rt) \o "\"" \o JsString(c) \o "\"">>
                        \o FormatTail(rt))>>)

\* The parts array of the route's generateContent call, for a body that
\* passed validation and a prompt that was built.
Parts(rv, rt, b, prompt) ==
    LET c == Get(b, "promptContext")
    IN  CASE rt = "insights" -> <<prompt>>
          [] rt = "estimate" -> <<EstimatePrompt(rv, b)>>
          [] rt = "chat"     -> <<ChatPrompt(rv, b)>>
          [] rt \in TwoPartRoutes ->
                <<(<<Instruction(rt)>>), (<<ContextLabel(rt) \o JsString(c)>>)>>
          [] rt = "security-policy-explainer" -> <<PolicyPrompt(c)>>
          [] OTHER ->
                <<(<<Instruction(rt), ContextLabel(rt) \o "\"" \o JsString(c) \o "\"">>
                   \o FormatTail(rt))>>

(***************************************************************************)
(* The handlers.                                                           *)
(***************************************************************************)
Accept == [ok |-> TRUE]

Reject(msg) == [ok |-> FALSE, error |-> msg]

\* Validate as it would be had the estimate handler left duration out of
\* its test.
Validate_NoDuration(rv, rt, b) ==
    CASE rt = "insights" ->
            IF ~Truthy(Get(b, "csvSummary")) \/ KeyCount(Get(b, "csvSummary")) = 0
            THEN Reject("No CSV summary provided for insights.")
            ELSE Accept
      [] rt = "estimate" ->
            IF \/ ~Truthy(Get(b, "resourceType"))
               \/ ~Truthy(Get(b, "size"))
               \/ ~Truthy(Get(b, "region"))
            THEN Reject("Missing required fields for estimation.")
            ELSE Accept
      [] rt = "chat" ->
            IF ~Truthy(Get(b, "userQuestion"))
            THEN Reject("No user question provided.")
            ELSE IF rv = "r1" /\ ~Truthy(Get(b, "csvContext"))
            THEN Reject("No CSV context provided for the chat.")
            ELSE Accept
      [] OTHER ->
            IF ~Truthy(Get(b, "promptContext"))
            THEN Reject(ValidationMessage(rt))
            ELSE Accept

\* Validate as it would be had the csvContext test of the first revision's
\* chat handler been kept in the later revisions.
Validate_ChatNeedsContext(rv, rt, b) ==
    CASE rt = "insights" ->
            IF ~Truthy(Get(b, "csvSummary")) \/ KeyCount(Get(b, "csvSummary")) = 0
            THEN Reject("No CSV summary provided for insights.")
            ELSE Accept
      [] rt = "estimate" ->
            IF \/ ~Truthy(Get(b, "resourceType"))
               \/ ~Truthy(Get(b, "size"))
               \/ ~Truthy(Get(b, "region"))
               \/ ~Truthy(Get(b, "duration"))
            THEN Reject("Missing required fields for estimation.")
            ELSE Accept
      [] rt = "chat" ->
            IF ~Truthy(Get(b, "userQuestion"))
            THEN Reject("No user question provided.")
            ELSE IF ~Truthy(Get(b, "csvContext"))
            THEN Reject("No CSV context provided for the chat.")
            ELSE Accept
      [] OTHER ->
            IF ~Truthy(Get(b, "promptContext"))
            THEN Reject(ValidationMessage(rt))
            ELSE Accept

\* The check(s) at the top of the route's handler: each is a truthiness
\* test of the destructured field, and ends the handler with a 400.
Validate(rv, rt, b) ==
    CASE rt = "insights" ->
            IF ~Truthy(Get(b, "csvSummary")) \/ KeyCount(Get(b, "csvSummary")) = 0
            THEN Reject("No CSV summary provided for insights.")
            ELSE Accept
      [] rt = "estimate" ->
            IF \/ ~Truthy(Get(b, "resourceType"))
               \/ ~Truthy(Get(b, "size"))
               \/ ~Truthy(Get(b, "region"))
               \/ ~Truthy(Get(b, "duration"))
            THEN Reject("Missing required fields for estimation.")
            ELSE Accept
      [] rt = "chat" ->
            IF ~Truthy(Get(b, "userQuestion"))
            THEN Reject("No user question provided.")
            ELSE IF rv = "r1" /\ ~Truthy(Get(b, "csvContext"))
            THEN Reject("No CSV context provided for the chat.")
            ELSE Accept
      [] OTHER ->
            IF ~Truthy(Get(b, "promptContext"))
            THEN Reject(ValidationMessage(rt))
            ELSE Accept

\* A response: res.status(s).json(obj), or the error page of the framework.
JsonResponse(status, obj) ==
    [status |-> status, type |-> "json", body |-> DropUndefined(obj)]

ErrorPage == [status |-> 500, type |-> "html", body |-> <<>>]

\* SuccessResponse as it would be had a handler copied from the chat route
\* kept its key: every route but insights answers under "answer".
SuccessResponse_AnswerKey(rt, b, text) ==
    IF rt = "insights"
    THEN LET s == Get(b, "csvSummary")
         IN  JsonResponse(200,
                 ("insights" :> Str(text))
                 @@ ("totalOverallCost" :> Get(s, "totalOverallCost"))
                 @@ ("serviceCosts" :> Get(s, "serviceCosts"))
                 @@ ("topExpensiveResources" :> Get(s, "topExpensiveResources"))
                 @@ ("idleResources" :> Get(s, "idleResources"))
                 @@ ("dataTruncated" :> Get(s, "dataTruncated")))
    ELSE JsonResponse(200, "answer" :> Str(text))

\* SuccessResponse as it would be had the envelope carried a number taken
\* from a counter of the module (the requests received so far).
SuccessResponse_Numbered(rt, b, text) ==
    JsonResponse(200,
        (OutputKey(rt) :> Str(text))
        @@ ("requestNumber" :>
               Num(1000 * Cardinality({q \in DOMAIN pc : pc[q] # "Idle"}))))

\* SuccessResponse as it would be had the builder taken the elements out
\* of the lists it renders (shift() in place of forEach): the summary the
\* handler echoes after the prompt was built has its lists emptied.
SuccessResponse_BuilderConsumes(rt, b, text) ==
    IF rt = "insights"
    THEN LET s == Get(b, "csvSummary")
             Emptied(v) == IF v.t = "array" THEN Arr(<<>>) ELSE v
         IN  JsonResponse(200,
                 ("insights" :> Str(text))
                 @@ ("totalOverallCost" :> Get(s, "totalOverallCost"))
                 @@ ("serviceCosts" :> Emptied(Get(s, "serviceCosts")))
                 @@ ("topExpensiveResources" :> Emptied(Get(s, "topExpensiveResources")))
                 @@ ("idleResources" :> Emptied(Get(s, "idleResources")))
                 @@ ("dataTruncated" :> Get(s, "dataTruncated")))
    ELSE JsonResponse(200, OutputKey(rt) :> Str(text))

\* res.json of the success path: the model's text under the route's key,
\* on insights with the summary's fields beside it.
SuccessResponse(rt, b, text) ==
    IF rt = "insights"
    THEN LET s == Get(b, "csvSummary")
         IN  JsonResponse(200,
                 ("insights" :> Str(text))
                 @@ ("totalOverallCost" :> Get(s, "totalOverallCost"))
                 @@ ("serviceCosts" :> Get(s, "serviceCosts"))
                 @@ ("topExpensiveResources" :> Get(s, "topExpensiveResources"))
                 @@ ("idleResources" :> Get(s, "idleResources"))
                 @@ ("dataTruncated" :> Get(s, "dataTruncated")))
    ELSE JsonResponse(200, OutputKey(rt) :> Str(text))

\* CatchResponse as it would be had the promptContext routes sent
\* error.message as it is, like insights, estimate and chat do.
CatchResponse_NoFallback(rt, e) ==
    IF rt \in CoreRoutes
    THEN JsonResponse(500, ("error" :> Str(ErrorText(rt))) @@ ("details" :> e.message))
    ELSE JsonResponse(500,
             ("error" :> Str(ErrorText(rt)))
             @@ ("details" :> e.message)
             @@ ("geminiErrorDetail" :>
                    IF Truthy(e.response)
                    THEN JSONStringify(Get(e.response, "candidates"))
                    ELSE Str("No specific Gemini error response.")))

\* CatchResponse as it would be had the promptContext routes sent the whole
\* error.response instead of its candidates.
CatchResponse_WholeResponse(rt, e) ==
    IF rt \in CoreRoutes
    THEN JsonResponse(500, ("error" :> Str(ErrorText(rt))) @@ ("details" :> e.message))
    ELSE JsonResponse(500,
             ("error" :> Str(ErrorText(rt)))
             @@ ("details" :> OrElse(e.message, Str("An unknown error occurred.")))
             @@ ("geminiErrorDetail" :>
                    IF Truthy(e.response)
                    THEN JSONStringify(e.response)
                    ELSE Str("No specific Gemini error response.")))

\* The catch block of the route: insights, estimate and chat answer with
\* error and details; the promptContext routes add geminiErrorDetail and
\* fall back to a fixed text when the message is falsy.
CatchResponse(rt, e) ==
    IF rt \in CoreRoutes
    THEN JsonResponse(500, ("error" :> Str(ErrorText(rt))) @@ ("details" :> e.message))
    ELSE JsonResponse(500,
             ("error" :> Str(ErrorText(rt)))
             @@ ("details" :> OrElse(e.message, Str("An unknown error occurred.")))
             @@ ("geminiErrorDetail" :>
                    IF Truthy(e.response)
                    THEN JSONStringify(Get(e.response, "candidates"))
                    ELSE Str("No specific Gemini error response.")))

\* The diagnostic log before the call reads promptContext.substring, which
\* only a string has: cloud-career-guide in r2, security-compliance in r3.
LogsPromptContext(rv, rt) ==
    \/ rv = "r2" /\ rt = "cloud-career-guide"
    \/ rv = "r3" /\ rt = "security-compliance"

\* The prompt that is built before the try block: only insights builds one
\* there (formatSummaryForGemini); the other routes cannot throw there.
PromptBeforeTry(rt, b) ==
    IF rt = "insights" THEN formatSummaryForGemini(Get(b, "csvSummary")) ELSE Built(<<>>)

\* HandlerStart as it would be had the validation test been written without
\* its return: the 400 is sent and the handler goes on to its call.
HandlerStart_NoReturn(rv, rt, b) ==
    LET v == Validate(rv, rt, b)
        p == PromptBeforeTry(rt, b)
    IN  IF p.threw
        THEN [pc |-> "Uncaught", calls |-> <<>>, sent |-> <<>>]
        ELSE IF ~v.ok
        THEN [pc |-> "Rejected",
              calls |-> <<[role   |-> "user",
                           parts  |-> Parts(rv, rt, b, p.text),
                           config |-> GenerationConfig(rv, rt)]>>,
              sent |-> <<JsonResponse(400, "error" :> Str(v.error))>>]
        ELSE IF LogsPromptContext(rv, rt) /\ Get(b, "promptContext").t # "string"
        THEN [pc |-> "Failed", calls |-> <<>>,
              sent |-> <<CatchResponse(rt,
                            TypeError("promptContext.substring is not a function"))>>]
        ELSE [pc |-> "Calling",
              calls |-> <<[role   |-> "user",
                           parts  |-> Parts(rv, rt, b, p.text),
                           config |-> GenerationConfig(rv, rt)]>>,
              sent |-> <<>>]

\* The handler from its start to its first await (or its end): what it
\* sent, the call it made, and where it stands.
\*   "Rejected"  validation failed, 400 sent
\*   "Uncaught"  an exception left the handler (its promise is rejected)
\*   "Failed"    the catch block sent the 500
\*   "Calling"   suspended at await textOnlyModel.generateContent(...)
HandlerStart(rv, rt, b) ==
    LET v == Validate(rv, rt, b)
        p == PromptBeforeTry(rt, b)
    IN  IF ~v.ok
        THEN [pc |-> "Rejected", calls |-> <<>>,
              sent |-> <<JsonResponse(400, "error" :> Str(v.error))>>]
        ELSE IF p.threw
        THEN [pc |-> "Uncaught", calls |-> <<>>, sent |-> <<>>]
        ELSE IF LogsPromptContext(rv, rt) /\ Get(b, "promptContext").t # "string"
        THEN [pc |-> "Failed", calls |-> <<>>,
              sent |-> <<CatchResponse(rt,
                            TypeError("promptContext.substring is not a function"))>>]
        ELSE [pc |-> "Calling",
              calls |-> <<[role   |-> "user",
                           parts  |-> Parts(rv, rt, b, p.text),
                           config |-> GenerationConfig(rv, rt)]>>,
              sent |-> <<>>]

\* HandlerResume as it would be had response.text() been read with a
\* fallback (an empty text for a response that has none) and sent as usual.
HandlerResume_EmptyTextOnBlock(rt, b, res) ==
    IF res.kind = "text"
    THEN [pc |-> "Responded", sent |-> <<SuccessResponse(rt, b, res.text)>>]
    ELSE IF res.kind = "blocked"
    THEN [pc |-> "Responded", sent |-> <<SuccessResponse(rt, b, "")>>]
    ELSE [pc |-> "Failed", sent |-> <<CatchResponse(rt, res.error)>>]

\* The handler after its await: the call resolved and response.text() gave
\* the text, or the call rejected or response.text() threw.
HandlerResume(rt, b, res) ==
    IF res.kind = "text"
    THEN [pc |-> "Responded", sent |-> <<SuccessResponse(rt, b, res.text)>>]
    ELSE [pc |-> "Failed", sent |-> <<CatchResponse(rt, res.error)>>]

(***************************************************************************)
(* The requests and the model results the environment can produce.         *)
(***************************************************************************)
\* A JSON object from field/value pairs; a pair whose value is undefined
\* stands for a field the JSON text does not have.
Body(f) == Obj(DropUndefined(f))

ResourceA ==
    Obj(("resourceId" :> Str("i-0abc")) @@ ("service" :> Str("AmazonEC2"))
        @@ ("totalCost" :> Num(80125)) @@ ("usageTypes" :> Str("BoxUsage"))
        @@ ("occurrences" :> Num(24000)) @@ ("durationDays" :> Num(30000)))

ResourceB ==
    Obj(("service" :> Str("AmazonS3")) @@ ("totalCost" :> Num(20))
        @@ ("occurrences" :> Num(1000)) @@ ("durationDays" :> Num(2000)))

ResourceNoCost == Obj(("resourceId" :> Str("vol-1")) @@ ("service" :> Str("AmazonEBS")))

Summaries ==
    { Undef, Null, EmptyObj, Num(5000), Str("total 12"),
      Obj(("totalOverallCost" :> Num(1234500))
          @@ ("serviceCosts" :> Arr(<<Arr(<<Str("AmazonEC2"), Num(12500)>>),
                                      Arr(<<Str("AmazonS3"), Num(3456)>>)>>))
          @@ ("topExpensiveResources" :> Arr(<<ResourceA>>))
          @@ ("idleResources" :> Arr(<<ResourceB>>))
          @@ ("dataTruncated" :> Bool(TRUE))),
      Obj(("totalOverallCost" :> Num(0)) @@ ("serviceCosts" :> Arr(<<>>))
          @@ ("dataTruncated" :> Bool(FALSE))),
      Obj("dataTruncated" :> Bool(TRUE)),
      Obj(("totalOverallCost" :> Num(0)) @@ ("idleResources" :> Arr(<<ResourceB>>))),
      Obj(("totalOverallCost" :> Num(12500))
          @@ ("serviceCosts" :> Arr(<<Arr(<<Str("AmazonEC2"), Str("12.5")>>)>>))),
      Obj("topExpensiveResources" :> Arr(<<ResourceNoCost>>)) }

\* promptContext: absent or a text on every route; the routes whose handler
\* treats the value specially also get values that are not strings, and
\* recommendation the falsy ones.
PromptContexts(rt) ==
    {Undef, Str("rightsize the idle instances")}
    \cup (IF rt \in {"recommendation", "security-compliance",
                     "security-policy-explainer", "cloud-career-guide"}
          THEN {Num(5000)} ELSE {})
    \cup (IF rt = "recommendation" THEN {Null, Str(""), Num(0)} ELSE {})
    \cup (IF rt = "security-policy-explainer"
          THEN {Str(PolicyDocument), Str("5"), Str("{}"), Str("{\"Version\":")}
          ELSE {})

CsvContexts ==
    { Undef,
      Obj(("hasData" :> Bool(TRUE)) @@ ("numRowsProcessed" :> Num(120000))),
      Obj(("numRowsProcessed" :> Num(120000)) @@ ("totalOverallCost" :> Num(1234500))) }

\* The bodies POSTed to a route.
Bodies(rt) ==
    CASE rt = "insights" -> {Body("csvSummary" :> s) : s \in Summaries}
      [] rt = "estimate" ->
            {Body(("resourceType" :> t) @@ ("size" :> Str("m5.large"))
                  @@ ("region" :> Str("us-east-1")) @@ ("duration" :> d)) :
                t \in {Undef, Str("EC2")},
                d \in {Undef, Num(0), Num(730000)}}
      [] rt = "chat" ->
            {Body(("userQuestion" :> q) @@ ("csvContext" :> c)) :
                q \in {Undef, Str(""), Num(0), Str("Why is S3 so costly?")},
                c \in CsvContexts}
      [] OTHER -> {Body("promptContext" :> c) : c \in PromptContexts(rt)}

\* What response.candidates of a blocked answer looks like.
Candidates == Arr(<<Obj(("finishReason" :> Str("SAFETY")) @@ ("index" :> Num(0)))>>)

\* The errors a failing model call carries.
Errors ==
    { ErrorObj(Str("fetch failed"), Undef),
      ErrorObj(Str(""), Undef),
      ErrorObj(Undef, Undef),
      ErrorObj(Str("Candidate was blocked due to SAFETY"), Obj("candidates" :> Candidates)),
      ErrorObj(Str("Text not available. Response was blocked"),
               Obj("promptFeedback" :> Obj("blockReason" :> Str("OTHER")))) }

Texts == {"Rightsize the idle instances.", ""}

\* How a generateContent call settles: it resolves and response.text()
\* returns the text; it resolves and response.text() throws; it rejects.
ModelResults ==
    {[kind |-> "text", text |-> x] : x \in Texts}
    \cup {[kind |-> "blocked", error |-> e] : e \in Errors}
    \cup {[kind |-> "rejected", error |-> e] : e \in Errors}

NoResult == [kind |-> "none"]

\* What the deployment does with the rejected promise of an async handler:
\* the repository pins neither Express nor Node.
\*   "express4-warn"   Express 4 drops it and Node only warns: no response
\*   "express4-crash"  Express 4 drops it and Node ends the process
\*   "express5"        Express 5 passes it to the default error handler
\* The deployment is one of these from the start; the model learns which
\* one when the first handler promise is rejected ("unobserved" until then).
Builds == {"express4-warn", "express4-crash", "express5"}

\* The handle of the module: none before genAI.getGenerativeModel ran,
\* then the handle of the model it was asked for.
NoClient == [model |-> "none"]

GetGenerativeModel == [model |-> "gemini-2.0-flash"]

\* ClientAfterCall as it would be had a handler set its options on the
\* handle (textOnlyModel.generationConfig = ...) before it called.
ClientAfterCall_KeepsOptions(client, config) ==
    [model |-> client.model, generationConfig |-> config]

\* The handle after textOnlyModel.generateContent({contents,
\* generationConfig}): the options travel in the argument of the call, the
\* handle is only read.
ClientAfterCall(client, config) == client

\* The paths of the app.get routes, and which of them a revision has.
StaticPaths == {"/", "/test-backend"}

\* StaticPathsOf as it would be had the first revision had the test route
\* of the later ones.
StaticPathsOf_TestRouteEverywhere(rv) == StaticPaths

StaticPathsOf(rv) == IF rv = "r1" THEN {"/"} ELSE StaticPaths

\* What the app.get handler of the path sends: res.send of a fixed text,
\* res.json of a fixed message that carries the tag of the revision.
StaticResponse(rv, path) ==
    IF path = "/"
    THEN [status |-> 200, type |-> "text", body |-> "Cloud Cost Dashboard Backend is running!"]
    ELSE JsonResponse(200,
             "message" :> Str("Backend is reachable and test route works! Tag: "
                              \o (IF rv = "r2"
                                  THEN "v20250611_CLOUD_CAREER_GUIDE_BACKEND_FINAL"
                                  ELSE "v20250611_SECURITY_COMPLIANCE_FINAL_FIX")))

(***************************************************************************)
(* The state machine.                                                      *)
(***************************************************************************)
Init ==
    /\ rev \in Revisions
    /\ build = "unobserved"
    /\ apiKey \in BOOLEAN
    /\ proc = "starting"
    /\ pc = [r \in Reqs |-> "Idle"]
    /\ route = [r \in Reqs |-> "none"]
    /\ body = [r \in Reqs |-> EmptyObj]
    /\ calls = [r \in Reqs |-> <<>>]
    /\ result = [r \in Reqs |-> NoResult]
    /\ sent = [r \in Reqs |-> <<>>]
    /\ textOnlyModel = NoClient
    /\ probes = [p \in StaticPaths |-> <<>>]

\* StartListening as it would be without the test of the key before it.
StartListening_NoKeyCheck ==
    /\ proc = "starting"
    /\ proc' = "listening"
    /\ textOnlyModel' = GetGenerativeModel
    /\ UNCHANGED <<rev, build, apiKey, pc, route, body, calls, result, sent, probes>>

\* The module body with the key set: the client is made, app.listen runs.
StartListening ==
    /\ proc = "starting"
    /\ apiKey
    /\ proc' = "listening"
    /\ textOnlyModel' = GetGenerativeModel
    /\ UNCHANGED <<rev, build, apiKey, pc, route, body, calls, result, sent, probes>>

\* The module body without the key: process.exit(1).
StartExit ==
    /\ proc = "starting"
    /\ ~apiKey
    /\ proc' = "exited"
    /\ UNCHANGED <<rev, build, apiKey, pc, route, body, calls, result, sent, textOnlyModel,
                   probes>>

\* POST /api/ai/<rt> with body b: the handler runs to its first await or
\* to its end.  An exception that leaves it is dealt with by the build.
Post(r, rt, b) ==
    /\ proc = "listening"
    /\ pc[r] = "Idle"
    /\ \A q \in DOMAIN pc : q < r => pc[q] # "Idle"
    /\ LET h == HandlerStart(rev, rt, b)
       IN  /\ pc' = [pc EXCEPT ![r] = h.pc]
           /\ calls' = [calls EXCEPT ![r] = h.calls]
           /\ textOnlyModel' =
                 IF h.pc = "Calling"
                 THEN ClientAfterCall(textOnlyModel, GenerationConfig(rev, rt))
                 ELSE textOnlyModel
           /\ IF h.pc = "Uncaught"
              THEN /\ build' \in (IF build = "unobserved" THEN Builds ELSE {build})
                   /\ sent' = [sent EXCEPT ![r] =
                                 IF build' = "express5" THEN <<ErrorPage>> ELSE <<>>]
                   /\ proc' = IF build' = "express4-crash" THEN "crashed" ELSE proc
              ELSE /\ sent' = [sent EXCEPT ![r] = h.sent]
                   /\ UNCHANGED <<build, proc>>
    /\ route' = [route EXCEPT ![r] = rt]
    /\ body' = [body EXCEPT ![r] = b]
    /\ UNCHANGED <<rev, apiKey, result, probes>>

\* The generateContent call of request r settles and its handler resumes.
Settle(r, res) ==
    /\ proc = "listening"
    /\ pc[r] = "Calling"
    /\ LET h == HandlerResume(route[r], body[r], res)
       IN  /\ pc' = [pc EXCEPT ![r] = h.pc]
           /\ sent' = [sent EXCEPT ![r] = sent[r] \o h.sent]
    /\ result' = [result EXCEPT ![r] = res]
    /\ UNCHANGED <<rev, build, apiKey, proc, route, body, calls, textOnlyModel, probes>>

\* GetStatic as it would be had the handler waited for the model calls in
\* flight (a handler that blocks on the shared client).
GetStatic_WaitsForCalls(path) ==
    /\ proc = "listening"
    /\ path \in StaticPathsOf(rev)
    /\ \A r \in DOMAIN pc : pc[r] # "Calling"
    /\ probes' = [probes EXCEPT ![path] = <<StaticResponse(rev, path)>>]
    /\ UNCHANGED <<rev, build, apiKey, proc, pc, route, body, calls, result, sent,
                   textOnlyModel>>

\* GET <path>: the handler is synchronous, it runs to its end in one step.
GetStatic(path) ==
    /\ proc = "listening"
    /\ path \in StaticPathsOf(rev)
    /\ probes' = [probes EXCEPT ![path] = <<StaticResponse(rev, path)>>]
    /\ UNCHANGED <<rev, build, apiKey, proc, pc, route, body, calls, result, sent,
                   textOnlyModel>>

Next ==
    \/ StartListening
    \/ StartExit
    \/ \E r \in DOMAIN pc : \E rt \in RoutesOf(rev) : \E b \in Bodies(rt) : Post(r, rt, b)
    \/ \E r \in DOMAIN pc : \E res \in ModelResults : Settle(r, res)
    \/ \E path \in StaticPaths : GetStatic(path)

Spec == Init /\ [][Next]_vars

(***************************************************************************)
(* Several requests in flight.  The same handlers, started and resumed by  *)
(* the same actions, for more requests drawn from fewer payloads: two      *)
(* routes (one that echoes its payload, one that does not), payloads that  *)
(* are accepted, rejected and thrown on, a call that succeeds or fails.    *)
(***************************************************************************)
MaxConc == 3

ConcRoutes == {"insights", "recommendation"}

ConcBodies(rt) ==
    IF rt = "insights"
    THEN {Body("csvSummary" :> s) :
            s \in {x \in Summaries :
                     /\ x.t = "object"
                     /\ \/ Truthy(Get(x, "dataTruncated"))
                        \/ Get(x, "totalOverallCost") = Num(12500)}}
    ELSE {Body("promptContext" :> c) : c \in {Undef, Str("rightsize the idle instances")}}

ConcResults ==
    {res \in ModelResults :
        \/ res.kind = "text"
        \/ res.kind = "rejected" /\ res.error = ErrorObj(Str("fetch failed"), Undef)}

InitConc ==
    /\ rev \in Revisions
    /\ build = "unobserved"
    /\ apiKey \in BOOLEAN
    /\ proc = "starting"
    /\ pc = [r \in 1..MaxConc |-> "Idle"]
    /\ route = [r \in 1..MaxConc |-> "none"]
    /\ body = [r \in 1..MaxConc |-> EmptyObj]
    /\ calls = [r \in 1..MaxConc |-> <<>>]
    /\ result = [r \in 1..MaxConc |-> NoResult]
    /\ sent = [r \in 1..MaxConc |-> <<>>]
    /\ textOnlyModel = NoClient
    /\ probes = [p \in StaticPaths |-> <<>>]

NextConc ==
    \/ StartListening
    \/ StartExit
    \/ \E r \in DOMAIN pc : \E rt \in ConcRoutes : \E b \in ConcBodies(rt) : Post(r, rt, b)
    \/ \E r \in DOMAIN pc : \E res \in ConcResults : Settle(r, res)
    \/ \E path \in StaticPaths : GetStatic(path)

SpecConc == InitConc /\ [][NextConc]_vars

(***************************************************************************)
(* Vocabulary of the properties.                                           *)
(***************************************************************************)
Arrived(r) == pc[r] # "Idle"

\* The handler of r has run to its end: nothing more will come from it.
Finished(r) == pc[r] \in {"Rejected", "Responded", "Failed", "Uncaught"}

\* The route table of the specification: the output key of each route.
TableOutputKey ==
    [rt \in R2Routes |->
        CASE rt = "insights"                  -> "insights"
          [] rt = "estimate"                  -> "estimate"
          [] rt = "chat"                      -> "answer"
          [] rt = "recommendation"            -> "recommendation"
          [] rt = "explain-anomaly"           -> "explanation"
          [] rt = "resource-optimization"     -> "optimizationPlan"
          [] rt = "troubleshoot"              -> "troubleshootResponse"
          [] rt = "architecture-assistant"    -> "architectureGuidance"
          [] rt = "security-compliance"       -> "securityComplianceResponse"
          [] rt = "generate-playbook"         -> "playbook"
          [] rt = "iam-simplifier"            -> "iamGuidance"
          [] rt = "dr-planner"                -> "drPlan"
          [] rt = "explain-cloud"             -> "explanation"
          [] rt = "teach-me-setup"            -> "learningContent"
          [] rt = "service-decision"          -> "serviceDecision"
          [] rt = "security-policy-explainer" -> "policyExplanation"
          [] rt = "generate-cloud-course"     -> "courseContent"
          [] rt = "interactive-cloud-lab"     -> "labContent"
          [] rt = "flashcards-quizzes"        -> "learningContent"
          [] OTHER                            -> "careerGuideContent"]

\* The route table of the specification: the required field(s) of each route.
TableRequired ==
    [rt \in R2Routes |->
        CASE rt = "insights" -> {"csvSummary"}
          [] rt = "estimate" -> {"resourceType", "size", "region", "duration"}
          [] rt = "chat"     -> {"userQuestion"}
          [] OTHER           -> {"promptContext"}]

\* The field(s) the handler of the running revision checks: the table's,
\* and csvContext as well on the chat route of the first revision.
CheckedFields(rv, rt) ==
    IF rv = "r1" /\ rt = "chat" THEN {"userQuestion", "csvContext"} ELSE TableRequired[rt]

HasField(b, k) == k \in DOMAIN b.f

\* A field that is missing, null or empty.
MissingNullOrEmpty(b, k) ==
    \/ ~HasField(b, k)
    \/ b.f[k] \in {Null, Str(""), EmptyObj, Arr(<<>>)}

IsSuccessEnvelope(resp, rt) ==
    /\ resp.type = "json"
    /\ resp.status = 200
    /\ TableOutputKey[rt] \in DOMAIN resp.body

IsErrorEnvelope(resp) ==
    /\ resp.type = "json"
    /\ resp.status \in {400, 500}
    /\ "error" \in DOMAIN resp.body

Answered400(r) == Len(sent[r]) >= 1 /\ sent[r][1].status = 400

HasCandidates(e) == Truthy(Get(e.response, "candidates"))

(***************************************************************************)
(* C1.  Every handler invocation sends exactly one response, and it is     *)
(* either a success envelope or an error envelope: never two responses,    *)
(* never both kinds, and a handler that has ended has sent one.            *)
(* The code contradicts it: an insights summary on which                   *)
(* formatSummaryForGemini throws leaves the handler before its try block.  *)
(***************************************************************************)
C1_ExactlyOneEnvelope ==
    \A r \in DOMAIN pc :
        /\ Len(sent[r]) <= 1
        /\ Finished(r) =>
              /\ Len(sent[r]) = 1
              /\ IsSuccessEnvelope(sent[r][1], route[r]) # IsErrorEnvelope(sent[r][1])

(***************************************************************************)
(* C2.  On every POST route, a request in which a required field of the    *)
(* route table is absent is answered with one response, status 400, whose  *)
(* body is {error: <message>} and holds no output key of the route.        *)
(***************************************************************************)
C2_AbsentFieldGets400 ==
    \A r \in DOMAIN pc :
        (Arrived(r) /\ \E k \in TableRequired[route[r]] : ~HasField(body[r], k)) =>
            /\ Len(sent[r]) = 1
            /\ sent[r][1].status = 400
            /\ sent[r][1].type = "json"
            /\ DOMAIN sent[r][1].body = {"error"}
            /\ sent[r][1].body["error"].t = "string"
            /\ sent[r][1].body["error"].s # ""
            /\ TableOutputKey[route[r]] \notin DOMAIN sent[r][1].body

C2_Witness ==
    \E r \in DOMAIN pc :
        /\ route[r] = "estimate"
        /\ HasField(body[r], "resourceType")
        /\ ~HasField(body[r], "duration")
        /\ pc[r] = "Rejected"
        /\ sent[r][1].status = 400

(***************************************************************************)
(* C3.  A request that fails validation (it is answered 400) has caused    *)
(* no generateContent call and no call of it ever settles; this holds in   *)
(* every state, so before and after the response.                          *)
(***************************************************************************)
C3_RejectedNeverCalls ==
    \A r \in DOMAIN pc :
        (Answered400(r) \/ (Arrived(r) /\ ~Validate(rev, route[r], body[r]).ok)) =>
            /\ calls[r] = <<>>
            /\ result[r] = NoResult
            /\ pc[r] = "Rejected"

C3_Witness ==
    \E r \in DOMAIN pc :
        /\ route[r] = "security-policy-explainer"
        /\ Answered400(r)
        /\ calls[r] = <<>>

(***************************************************************************)
(* C4.  On every POST route, when the model call of a request succeeds     *)
(* with text X, the request is answered with one response, status 200,     *)
(* whose body holds X unchanged under the output key of the route table.   *)
(***************************************************************************)
C4_SuccessRelaysText ==
    \A r \in DOMAIN pc :
        result[r].kind = "text" =>
            /\ Len(sent[r]) = 1
            /\ sent[r][1].status = 200
            /\ sent[r][1].type = "json"
            /\ TableOutputKey[route[r]] \in DOMAIN sent[r][1].body
            /\ sent[r][1].body[TableOutputKey[route[r]]] = Str(result[r].text)

C4_Witness ==
    \E r \in DOMAIN pc :
        /\ route[r] = "cloud-career-guide"
        /\ result[r].kind = "text"
        /\ result[r].text # ""
        /\ pc[r] = "Responded"

(***************************************************************************)
(* C5 as claimed.  On every route, when the model call fails with an       *)
(* error whose message is M, the response has status 500 and a body with   *)
(* an error field and a details field equal to M, for every M including    *)
(* an empty or a missing message.                                          *)
(***************************************************************************)
C5_DetailsIsMessage ==
    \A r \in DOMAIN pc :
        result[r].kind = "rejected" =>
            /\ Len(sent[r]) = 1
            /\ sent[r][1].status = 500
            /\ "error" \in DOMAIN sent[r][1].body
            /\ "details" \in DOMAIN sent[r][1].body
            /\ sent[r][1].body["details"] = result[r].error.message

(***************************************************************************)
(* C5 as amended.  On every route, when the model call fails with an       *)
(* error whose message is M, the response has status 500 and a body with   *)
(* an error field.  If M is a non-empty string, details equals M.  If M    *)
(* is empty or missing, the promptContext routes send the details          *)
(* "An unknown error occurred."; insights, estimate and chat send          *)
(* details "" for an empty M and no details field for a missing M.         *)
(***************************************************************************)
C5_DetailsIsMessageOrFallback ==
    \A r \in DOMAIN pc :
        result[r].kind = "rejected" =>
            LET m == result[r].error.message
                core == route[r] \in {"insights", "estimate", "chat"}
            IN  /\ Len(sent[r]) = 1
                /\ sent[r][1].status = 500
                /\ sent[r][1].type = "json"
                /\ "error" \in DOMAIN sent[r][1].body
                /\ (m.t = "string" /\ m.s # "") =>
                      /\ "details" \in DOMAIN sent[r][1].body
                      /\ sent[r][1].body["details"] = m
                /\ (~core /\ m \in {Undef, Str("")}) =>
                      /\ "details" \in DOMAIN sent[r][1].body
                      /\ sent[r][1].body["details"] = Str("An unknown error occurred.")
                /\ (core /\ m = Str("")) =>
                      /\ "details" \in DOMAIN sent[r][1].body
                      /\ sent[r][1].body["details"] = Str("")
                /\ (core /\ m = Undef) => "details" \notin DOMAIN sent[r][1].body

C5_Witness ==
    \E r \in DOMAIN pc :
        /\ route[r] = "recommendation"
        /\ result[r].kind = "rejected"
        /\ result[r].error.message = Str("")
        /\ sent[r][1].status = 500
        /\ sent[r][1].body["details"] = Str("An unknown error occurred.")

(***************************************************************************)
(* C6.  A request that passes validation causes exactly one                *)
(* generateContent call, never zero and never two or more, and a failure   *)
(* of that call is reported in the response of the same request.           *)
(* The code contradicts it: a handler that throws before its call (the     *)
(* promptContext.substring log on a value that is no string, or            *)
(* formatSummaryForGemini on insights) ends without having called.         *)
(***************************************************************************)
C6_ExactlyOneCall ==
    \A r \in DOMAIN pc :
        /\ Len(calls[r]) <= 1
        /\ (Arrived(r) /\ Validate(rev, route[r], body[r]).ok) => Len(calls[r]) = 1
        /\ result[r].kind \in {"rejected", "blocked"} =>
              (Len(sent[r]) = 1 /\ sent[r][1].status = 500)

(***************************************************************************)
(* C7.  Validation rejects a request if and only if some required field    *)
(* of the route is missing, null or empty: a request whose required        *)
(* fields are all present and neither null nor empty (estimate with        *)
(* duration 0, a field that is not a string) is not answered 400.          *)
(* The code contradicts it: its tests are truthiness tests, so 0 and       *)
(* false are rejected as missing.                                          *)
(***************************************************************************)
C7_RejectsIffMissing ==
    \A r \in DOMAIN pc :
        Arrived(r) =>
            (Answered400(r) <=>
                \E k \in CheckedFields(rev, route[r]) : MissingNullOrEmpty(body[r], k))

(***************************************************************************)
(* C8 as claimed.  On the chat route csvContext is optional: a request     *)
(* with a non-empty userQuestion and no csvContext passes validation,      *)
(* makes the model call and is answered 200 {answer: <text>} on success;   *)
(* only a missing userQuestion (one the handler's test takes as missing)   *)
(* yields 400.                                                             *)
(***************************************************************************)
C8_CsvContextOptional ==
    \A r \in DOMAIN pc :
        (Arrived(r) /\ route[r] = "chat") =>
            /\ (Truthy(Get(body[r], "userQuestion")) /\ ~HasField(body[r], "csvContext")) =>
                  /\ ~Answered400(r)
                  /\ Len(calls[r]) = 1
                  /\ result[r].kind = "text" =>
                        sent[r] = <<[status |-> 200, type |-> "json",
                                     body |-> ("answer" :> Str(result[r].text))]>>
            /\ Answered400(r) => ~Truthy(Get(body[r], "userQuestion"))

(***************************************************************************)
(* C8 as amended.  In the second revision of src/app.js and in             *)
(* src/unnamed/part_000 csvContext is optional on the chat route: a        *)
(* request with a non-empty userQuestion and no csvContext passes          *)
(* validation, makes the model call and is answered 200 {answer: <text>}   *)
(* on success, and 400 is sent exactly when userQuestion is falsy (absent, *)
(* null, empty, 0 or false).  In the first revision of src/app.js a        *)
(* request with a userQuestion and no (or a falsy) csvContext is answered  *)
(* 400 as well, without a model call.                                      *)
(***************************************************************************)
C8_CsvContextOptionalSinceR2 ==
    \A r \in DOMAIN pc :
        (Arrived(r) /\ route[r] = "chat") =>
            LET q   == Get(body[r], "userQuestion")
                ctx == Get(body[r], "csvContext")
            IN  /\ (rev # "r1" /\ Truthy(q) /\ ~HasField(body[r], "csvContext")) =>
                      /\ ~Answered400(r)
                      /\ Len(calls[r]) = 1
                      /\ result[r].kind = "text" =>
                            sent[r] = <<[status |-> 200, type |-> "json",
                                         body |-> ("answer" :> Str(result[r].text))]>>
                /\ Answered400(r) <=> (~Truthy(q) \/ (rev = "r1" /\ ~Truthy(ctx)))
                /\ Answered400(r) => calls[r] = <<>>

C8_Witness ==
    \E r \in DOMAIN pc :
        /\ rev = "r2"
        /\ route[r] = "chat"
        /\ Get(body[r], "userQuestion") = Str("Why is S3 so costly?")
        /\ ~HasField(body[r], "csvContext")
        /\ pc[r] = "Responded"
        /\ sent[r][1].status = 200

(***************************************************************************)
(* C9 as claimed.  When a model call fails and the error carries           *)
(* candidate diagnostics (error.response.candidates), the 500 body sent    *)
(* to the caller contains those diagnostics, on every route including      *)
(* insights, estimate and chat.                                            *)
(***************************************************************************)
C9_DiagnosticsInBody ==
    \A r \in DOMAIN pc :
        (result[r].kind \in {"rejected", "blocked"} /\ HasCandidates(result[r].error)) =>
            /\ Len(sent[r]) = 1
            /\ sent[r][1].status = 500
            /\ \E k \in DOMAIN sent[r][1].body :
                  sent[r][1].body[k] = JSONStringify(Get(result[r].error.response, "candidates"))

(***************************************************************************)
(* C9 as amended.  When a model call fails and the error carries           *)
(* candidate diagnostics, the 500 body of every promptContext route        *)
(* contains them, serialised, as geminiErrorDetail; on insights, estimate  *)
(* and chat the 500 body holds error and details only (those handlers      *)
(* write the diagnostics to the log, or drop them).                        *)
(***************************************************************************)
C9_DiagnosticsOnPromptContextRoutes ==
    \A r \in DOMAIN pc :
        (result[r].kind \in {"rejected", "blocked"} /\ HasCandidates(result[r].error)) =>
            /\ Len(sent[r]) = 1
            /\ sent[r][1].status = 500
            /\ sent[r][1].type = "json"
            /\ IF route[r] \in {"insights", "estimate", "chat"}
               THEN DOMAIN sent[r][1].body = {"error", "details"}
               ELSE /\ "geminiErrorDetail" \in DOMAIN sent[r][1].body
                    /\ sent[r][1].body["geminiErrorDetail"] =
                          JSONStringify(Get(result[r].error.response, "candidates"))

C9_Witness ==
    \E r \in DOMAIN pc :
        /\ route[r] = "recommendation"
        /\ result[r].kind = "rejected"
        /\ HasCandidates(result[r].error)
        /\ "geminiErrorDetail" \in DOMAIN sent[r][1].body

(***************************************************************************)
(* C10.  Every failure while handling a request (a validation failure, a   *)
(* failure of the model call, an exception while the prompt is built)      *)
(* ends with a JSON error body sent to the caller: no request whose        *)
(* handling failed is left without one.                                    *)
(* The code contradicts it: an exception of formatSummaryForGemini is      *)
(* raised outside the try block of the insights handler.                   *)
(***************************************************************************)
C10_EveryFailureAnswered ==
    \A r \in DOMAIN pc :
        pc[r] \in {"Rejected", "Failed", "Uncaught"} =>
            /\ Len(sent[r]) = 1
            /\ sent[r][1].type = "json"
            /\ sent[r][1].status \in {400, 500}
            /\ "error" \in DOMAIN sent[r][1].body

(***************************************************************************)
(* C11.  When the model call of a request resolves but response.text()     *)
(* throws (a blocked or unparsable response), the request is answered with *)
(* one response, status 500, whose JSON body holds error: no 200 is sent   *)
(* and the body holds no output key of the route.                          *)
(***************************************************************************)
C11_TextFailureIs500 ==
    \A r \in DOMAIN pc :
        result[r].kind = "blocked" =>
            /\ pc[r] = "Failed"
            /\ Len(sent[r]) = 1
            /\ sent[r][1].status = 500
            /\ sent[r][1].type = "json"
            /\ "error" \in DOMAIN sent[r][1].body
            /\ TableOutputKey[route[r]] \notin DOMAIN sent[r][1].body

C11_Witness ==
    \E r \in DOMAIN pc :
        /\ route[r] = "recommendation"
        /\ result[r].kind = "blocked"
        /\ result[r].error.message = Str("Text not available. Response was blocked")
        /\ sent[r][1].status = 500

(***************************************************************************)
(* C12.  security-policy-explainer chooses its template by whether         *)
(* promptContext parses as JSON: a promptContext that JSON.parse accepts   *)
(* (a policy document, the bare number "5", the empty object "{}", the     *)
(* number 5) gets the prompt that explains a JSON policy, one that         *)
(* JSON.parse rejects (a sentence, a cut-off document) gets the prompt     *)
(* that generates a policy from a request; the prompt of a call is the     *)
(* same before and after the call settles, whatever its result.            *)
(***************************************************************************)
C12_TemplateByJsonParse ==
    \A r \in DOMAIN pc :
        (route[r] = "security-policy-explainer" /\ pc[r] \in {"Calling", "Responded", "Failed"}) =>
            LET c == Get(body[r], "promptContext")
                accepted == c \in {Str(PolicyDocument), Str("5"), Str("{}"), Num(5000)}
                rejected == c \in {Str("rightsize the idle instances"), Str("{\"Version\":")}
                prompt == calls[r][1].parts[1]
            IN  /\ Len(calls[r]) = 1
                /\ Len(calls[r][1].parts) = 1
                /\ accepted \/ rejected
                /\ accepted =>
                      /\ prompt[1] = "As an expert AWS Cloud Security Policy Explainer (IAM/SCP), analyze the following JSON policy. (...)"
                      /\ prompt[2] = "Policy to explain:\n(json fence)\n" \o JsString(c) \o "\n(fence)"
                /\ rejected =>
                      /\ prompt[1] = "As an expert AWS Cloud Security Policy Generator, (...)"
                      /\ prompt[2] = "User's Policy Request: \"" \o JsString(c) \o "\""

C12_Witness ==
    \E r \in DOMAIN pc :
        /\ route[r] = "security-policy-explainer"
        /\ Get(body[r], "promptContext") = Str("5")
        /\ pc[r] = "Responded"
        /\ calls[r][1].parts[1][2] = "Policy to explain:\n(json fence)\n5\n(fence)"

(***************************************************************************)
(* C13.  Insights prompt builder: when summary.serviceCosts is empty or    *)
(* absent the prompt holds no "Top 5 Services by Cost" section; when it is *)
(* not empty the prompt holds that heading once, followed by exactly one   *)
(* line per [service, cost] pair, in input order, the cost with two        *)
(* decimals, and the empty line that ends the section.                     *)
(* The code contradicts it: for a pair whose cost is no number the builder *)
(* throws and there is no prompt at all.                                   *)
(***************************************************************************)
C13_ServiceCostsSection ==
    \A r \in DOMAIN pc :
        (route[r] = "insights" /\ pc[r] \notin {"Idle", "Rejected"}) =>
            LET sc == Get(Get(body[r], "csvSummary"), "serviceCosts")
            IN  IF sc.t = "array" /\ Len(sc.a) > 0
                THEN /\ Len(calls[r]) = 1
                     /\ LET prompt == calls[r][1].parts[1]
                            n == Len(sc.a)
                        IN  \E i \in 1..Len(prompt) :
                               /\ prompt[i] = ServiceTitle
                               /\ \A k \in 1..Len(prompt) : prompt[k] = ServiceTitle => k = i
                               /\ i + n + 1 <= Len(prompt)
                               /\ \A j \in 1..n :
                                     prompt[i + j] = "- " \o JsString(sc.a[j].a[1]) \o ": $"
                                                       \o ToFixed2(sc.a[j].a[2].n) \o "\n"
                               /\ prompt[i + n + 1] = "\n"
                ELSE Len(calls[r]) = 1 =>
                        \A k \in 1..Len(calls[r][1].parts[1]) :
                            calls[r][1].parts[1][k] # ServiceTitle

(***************************************************************************)
(* C14.  Insights prompt builder: the prompt it returns holds the          *)
(* truncation note (once, right before the closing instruction) when       *)
(* summary.dataTruncated is true, and does not hold it when dataTruncated  *)
(* is false or absent.                                                     *)
(***************************************************************************)
C14_TruncationNote ==
    \A r \in DOMAIN pc :
        (route[r] = "insights" /\ Len(calls[r]) = 1) =>
            LET prompt == calls[r][1].parts[1]
                flag == Get(Get(body[r], "csvSummary"), "dataTruncated")
                at == {k \in 1..Len(prompt) : prompt[k] = TruncationNote}
            IN  /\ flag \in {Bool(TRUE), Bool(FALSE), Undef}
                /\ flag = Bool(TRUE) => at = {Len(prompt) - 1}
                /\ flag \in {Bool(FALSE), Undef} => at = {}
                /\ prompt[Len(prompt)] = InsightsClosing

C14_Witness ==
    \E r \in DOMAIN pc :
        /\ route[r] = "insights"
        /\ Get(Get(body[r], "csvSummary"), "dataTruncated") = Bool(TRUE)
        /\ Len(calls[r]) = 1
        /\ \E k \in 1..Len(calls[r][1].parts[1]) : calls[r][1].parts[1][k] = TruncationNote

(***************************************************************************)
(* C15.  Idempotence of the relay: two requests of the same route with the *)
(* same payload, whose model calls returned the same text, have been sent  *)
(* identical envelopes (one response each, status 200, the same keys and   *)
(* values), whatever other requests were handled before, between or        *)
(* during them.                                                            *)
(***************************************************************************)
C15_SamePayloadSameEnvelope ==
    \A r, q \in DOMAIN pc :
        (/\ r # q
         /\ route[r] = route[q]
         /\ body[r] = body[q]
         /\ result[r].kind = "text"
         /\ result[q] = result[r]) =>
            /\ Len(sent[r]) = 1
            /\ sent[r][1].status = 200
            /\ sent[r] = sent[q]

C15_Witness ==
    /\ DOMAIN pc = 1..3
    /\ route[1] = "insights" /\ route[3] = "insights" /\ body[1] = body[3]
    /\ route[2] = "recommendation" /\ pc[2] = "Failed"
    /\ result[1].kind = "text" /\ result[3] = result[1]
    /\ sent[1] = sent[3]
    /\ sent[1][1].status = 200

(***************************************************************************)
(* C16.  Requests in flight together do not affect each other: in every    *)
(* state of every interleaving, the model call of a request carries the    *)
(* prompt built from its own payload, its 200 envelope holds its own       *)
(* model text (and on insights the fields of its own summary) and nothing  *)
(* else, its 500 envelope reports the error of its own call, and a request *)
(* suspended at its model call is in a process that still runs, so that    *)
(* its response depends on the result of its own call only.                *)
(* The code contradicts the last part: the exception that leaves the       *)
(* insights handler of one request can end the process, and with it every  *)
(* request that is suspended at its call.                                  *)
(***************************************************************************)
C16_RequestsIndependent ==
    \A r \in DOMAIN pc :
        LET own == Get(body[r], "csvSummary")
        IN  /\ Len(calls[r]) = 1 =>
                  calls[r][1].parts =
                      Parts(rev, route[r], body[r], PromptBeforeTry(route[r], body[r]).text)
            /\ pc[r] = "Responded" =>
                  /\ result[r].kind = "text"
                  /\ sent[r] =
                       <<[status |-> 200, type |-> "json",
                          body |->
                            IF route[r] = "insights"
                            THEN DropUndefined(
                                   ("insights" :> Str(result[r].text))
                                   @@ ("totalOverallCost" :> Get(own, "totalOverallCost"))
                                   @@ ("serviceCosts" :> Get(own, "serviceCosts"))
                                   @@ ("topExpensiveResources" :> Get(own, "topExpensiveResources"))
                                   @@ ("idleResources" :> Get(own, "idleResources"))
                                   @@ ("dataTruncated" :> Get(own, "dataTruncated")))
                            ELSE TableOutputKey[route[r]] :> Str(result[r].text)]>>
            /\ (pc[r] = "Failed" /\ result[r].kind # "none") =>
                  /\ Len(sent[r]) = 1
                  /\ sent[r][1].status = 500
                  /\ sent[r][1].body["details"] = result[r].error.message
            /\ pc[r] \in {"Idle", "Calling", "Uncaught"} => result[r] = NoResult
            /\ pc[r] = "Calling" => proc = "listening"

\* The generation options of the specification's route table: the output
\* tokens (a range where the table gives one) and the temperature in
\* tenths (no element where the table sets none).
TableTokens ==
    [rt \in R2Routes |->
        CASE rt = "insights"                  -> {200}
          [] rt = "estimate"                  -> {150}
          [] rt = "chat"                      -> 250..300
          [] rt = "recommendation"            -> {50}
          [] rt = "explain-anomaly"           -> {100}
          [] rt = "resource-optimization"     -> {200}
          [] rt = "troubleshoot"              -> {250}
          [] rt = "architecture-assistant"    -> {400}
          [] rt = "security-compliance"       -> {200}
          [] rt = "generate-playbook"         -> {600}
          [] rt = "iam-simplifier"            -> {500}
          [] rt = "dr-planner"                -> {500}
          [] rt = "explain-cloud"             -> {500}
          [] rt = "teach-me-setup"            -> {800}
          [] rt = "service-decision"          -> {600}
          [] rt = "security-policy-explainer" -> {700}
          [] rt = "generate-cloud-course"     -> {800}
          [] rt = "interactive-cloud-lab"     -> {700}
          [] rt = "flashcards-quizzes"        -> {700}
          [] OTHER                            -> {800}]

TableTemperature ==
    [rt \in R2Routes |->
        CASE rt \in {"insights", "estimate"}  -> {}
          [] rt = "chat"                      -> {5}
          [] rt = "recommendation"            -> {2}
          [] rt = "explain-anomaly"           -> {4}
          [] rt = "resource-optimization"     -> {3}
          [] rt = "troubleshoot"              -> {4}
          [] rt = "architecture-assistant"    -> {7}
          [] rt = "security-compliance"       -> {3}
          [] rt = "generate-playbook"         -> {6}
          [] rt = "iam-simplifier"            -> {4}
          [] rt = "dr-planner"                -> {6}
          [] rt = "explain-cloud"             -> {5}
          [] rt = "teach-me-setup"            -> {5}
          [] rt = "service-decision"          -> {5}
          [] rt = "security-policy-explainer" -> {4}
          [] rt = "generate-cloud-course"     -> {6}
          [] rt = "interactive-cloud-lab"     -> {6}
          [] rt = "flashcards-quizzes"        -> {6}
          [] OTHER                            -> {7}]

\* The temperature a call sets: no element when it sets none.
TemperatureOf(config) ==
    IF "temperature" \in DOMAIN config THEN {config.temperature} ELSE {}

(***************************************************************************)
(* C17 as claimed.  Every model call of a route carries the generation     *)
(* options of the route table, whatever the payload: the output tokens of  *)
(* the table (chat: 250 to 300) and the temperature of the table (chat:    *)
(* 0.5; insights and estimate: none set).                                  *)
(***************************************************************************)
C17_OptionsOfTheTable ==
    \A r \in DOMAIN pc :
        Len(calls[r]) = 1 =>
            /\ calls[r][1].config.maxOutputTokens \in TableTokens[route[r]]
            /\ TemperatureOf(calls[r][1].config) = TableTemperature[route[r]]

(***************************************************************************)
(* C17 as amended.  Every model call of a route carries the generation     *)
(* options of the route table, whatever the payload, except on chat: the   *)
(* chat call of the first revision of src/app.js has 250 output tokens and *)
(* sets no temperature; the chat call of the second revision and of        *)
(* src/unnamed/part_000 has 300 output tokens and temperature 0.5.         *)
(***************************************************************************)
C17_OptionsOfTheRevision ==
    \A r \in DOMAIN pc :
        Len(calls[r]) = 1 =>
            LET config == calls[r][1].config
            IN  IF route[r] = "chat"
                THEN IF rev = "r1"
                     THEN config = [maxOutputTokens |-> 250]
                     ELSE config = [maxOutputTokens |-> 300, temperature |-> 5]
                ELSE /\ TableTokens[route[r]] = {config.maxOutputTokens}
                     /\ TemperatureOf(config) = TableTemperature[route[r]]

C17_Witness ==
    \E r \in DOMAIN pc :
        /\ rev = "r1"
        /\ route[r] = "chat"
        /\ Len(calls[r]) = 1
        /\ calls[r][1].config = [maxOutputTokens |-> 250]

(***************************************************************************)
(* C18.  The process serves requests only if GEMINI_API_KEY was present    *)
(* at startup: without the key the process never listens (it is starting   *)
(* or has exited), no handler is ever invoked and no model call is made;   *)
(* a process that listens, or has handled a request, has the key.          *)
(***************************************************************************)
C18_NoKeyNoService ==
    /\ ~apiKey =>
          /\ proc \in {"starting", "exited"}
          /\ \A r \in DOMAIN pc : pc[r] = "Idle" /\ calls[r] = <<>> /\ sent[r] = <<>>
    /\ proc \in {"listening", "crashed"} => apiKey
    /\ proc = "exited" => ~apiKey

C18_Witness ==
    /\ ~apiKey
    /\ proc = "exited"
    /\ \A r \in DOMAIN pc : pc[r] = "Idle"

FieldsNamed(msg) ==
    CASE msg = "No CSV summary provided for insights."   -> {"csvSummary"}
      [] msg = "Missing required fields for estimation." -> {}
      [] msg = "No user question provided."              -> {"userQuestion"}
      [] msg = "No CSV context provided for the chat."   -> {"csvContext"}
      [] OTHER                                           -> {"promptContext"}

(***************************************************************************)
(* C20.  The message of a 400 names the missing field(s): every required   *)
(* field of the route that the request lacks is named by the error         *)
(* message of its 400 (on estimate: which of resourceType, size, region,   *)
(* duration).                                                              *)
(* The code contradicts it: the message of estimate is the same fixed      *)
(* text whichever field is missing, and names none.                        *)
(***************************************************************************)
C20_MessageNamesMissingFields ==
    \A r \in DOMAIN pc :
        Answered400(r) =>
            \A k \in TableRequired[route[r]] :
                ~HasField(body[r], k) => k \in FieldsNamed(sent[r][1].body["error"].s)

\* The fields of the summary that the insights response carries.
EchoedFields ==
    {"totalOverallCost", "serviceCosts", "topExpensiveResources", "idleResources",
     "dataTruncated"}

(***************************************************************************)
(* C21.  A successful insights response echoes the summary of its request  *)
(* unchanged: each of totalOverallCost, serviceCosts,                      *)
(* topExpensiveResources, idleResources and dataTruncated in the 200 body  *)
(* equals the field of the csvSummary received (and is absent when the     *)
(* summary has none); building the prompt has not modified the summary.    *)
(***************************************************************************)
C21_SummaryEchoedUnchanged ==
    \A r \in DOMAIN pc :
        (route[r] = "insights" /\ pc[r] = "Responded") =>
            /\ Len(sent[r]) = 1
            /\ sent[r][1].status = 200
            /\ \A k \in EchoedFields :
                  LET v == Get(Get(body[r], "csvSummary"), k)
                  IN  IF v = Undef
                      THEN k \notin DOMAIN sent[r][1].body
                      ELSE k \in DOMAIN sent[r][1].body /\ sent[r][1].body[k] = v

C21_Witness ==
    \E r \in DOMAIN pc :
        /\ route[r] = "insights"
        /\ pc[r] = "Responded"
        /\ Get(Get(body[r], "csvSummary"), "serviceCosts").t = "array"
        /\ Len(Get(Get(body[r], "csvSummary"), "serviceCosts").a) = 2
        /\ sent[r][1].body["serviceCosts"] = Get(Get(body[r], "csvSummary"), "serviceCosts")
        /\ sent[r][1].body["idleResources"] = Arr(<<ResourceB>>)

(***************************************************************************)
(* C22.  The only GET route the server exposes is GET /: no GET of another *)
(* path is answered by a handler of the program; every other route is      *)
(* POST /api/ai/<route>.                                                   *)
(* False of the second revision and of part_000, which also register       *)
(* GET /test-backend.                                                      *)
(***************************************************************************)
C22_OnlyGetIsRoot ==
    /\ \A path \in StaticPaths : probes[path] # <<>> => path = "/"
    /\ \A r \in DOMAIN pc : Arrived(r) => route[r] \in RoutesOf(rev)

(***************************************************************************)
(* C22, amended.  The GET routes are GET / and, in the second revision and *)
(* in part_000, GET /test-backend, which answers 200 with a JSON message   *)
(* that carries the revision's tag; the first revision has GET / only.     *)
(* Every other route is one of the revision's POST /api/ai/<route>.        *)
(***************************************************************************)
C22_GetRoutesOfTheRevision ==
    /\ \A path \in StaticPaths :
          probes[path] # <<>> =>
              /\ path \in {"/", "/test-backend"}
              /\ path = "/test-backend" =>
                    /\ rev \in {"r2", "r3"}
                    /\ probes[path][1].status = 200
                    /\ probes[path][1].type = "json"
                    /\ DOMAIN probes[path][1].body = {"message"}
    /\ \A r \in DOMAIN pc : Arrived(r) => route[r] \in RoutesOf(rev)

C22_Witness ==
    /\ rev = "r2"
    /\ probes["/test-backend"] # <<>>
    /\ probes["/test-backend"][1].status = 200
    /\ probes["/"] # <<>>

(***************************************************************************)
(* C23.  Each request follows the handler state machine                    *)
(* Validating -> {Rejected | Calling}, Calling -> {Responded | Failed}:    *)
(* a handler leaves its start only to Rejected or to Calling and leaves    *)
(* Calling only to Responded or to Failed; a call is made only for a body  *)
(* that passed validation; after Rejected, Responded and Failed the        *)
(* request has no further call or response; Responded is reached only      *)
(* after a model call that succeeded.                                      *)
(* The code contradicts the first part: a handler can go from validation   *)
(* to Failed without calling (the diagnostic log throws inside the try     *)
(* block), and the insights handler can leave validation with an exception *)
(* that is neither.                                                        *)
(***************************************************************************)
C23_HandlerStateMachine ==
    /\ [][\A r \in DOMAIN pc :
            pc'[r] # pc[r] =>
                \/ pc[r] = "Idle" /\ pc'[r] \in {"Rejected", "Calling"}
                \/ pc[r] = "Calling" /\ pc'[r] \in {"Responded", "Failed"}]_vars
    /\ [][\A r \in DOMAIN pc :
            pc[r] \in {"Rejected", "Responded", "Failed"} =>
                /\ pc'[r] = pc[r]
                /\ calls'[r] = calls[r]
                /\ sent'[r] = sent[r]]_vars
    /\ [](\A r \in DOMAIN pc :
            /\ Len(calls[r]) >= 1 => Validate(rev, route[r], body[r]).ok
            /\ pc[r] = "Responded" => Len(calls[r]) = 1 /\ result[r].kind = "text")

(***************************************************************************)
(* C24.  No handler modifies the shared model client: the handle made at   *)
(* startup is the same in every state of a started process, after any      *)
(* sequence of requests that were answered, rejected or failed, and the    *)
(* only step that changes it is the start of the process.                  *)
(***************************************************************************)
C24_ClientUnchanged ==
    /\ [](proc \in {"listening", "crashed"} => textOnlyModel = GetGenerativeModel)
    /\ [](proc \in {"starting", "exited"} => textOnlyModel = NoClient)
    /\ [][textOnlyModel' # textOnlyModel => proc = "starting" /\ pc' = pc]_vars

C24_Witness ==
    /\ textOnlyModel = GetGenerativeModel
    /\ \E r \in DOMAIN pc : pc[r] = "Responded"
    /\ \E r \in DOMAIN pc : pc[r] = "Failed"
    /\ \E r \in DOMAIN pc : pc[r] = "Rejected"

\* The list sections of the insights prompt, in the order of the source:
\* the field of the summary and the title of its section.
ListSections ==
    << [field |-> "serviceCosts", title |-> ServiceTitle],
       [field |-> "topExpensiveResources", title |-> ExpensiveTitle],
       [field |-> "idleResources", title |-> IdleTitle] >>

(***************************************************************************)
(* C25.  Insights prompt builder: for every summary that passed            *)
(* validation there is a prompt, and in it the optional sections come in   *)
(* the order service costs, top expensive resources, idle resources,       *)
(* truncation note, closing instruction; each list section is present      *)
(* exactly when its list is present and not empty, and a present section   *)
(* is its title, one bullet line per element in input order, and an empty  *)
(* line.                                                                   *)
(* The code contradicts it: a list that is present and not empty can make  *)
(* the builder throw, and then there is no section and no prompt.          *)
(***************************************************************************)
C25_SectionsInOrder ==
    \A r \in DOMAIN pc :
        (route[r] = "insights" /\ pc[r] \notin {"Idle", "Rejected"}) =>
            /\ Len(calls[r]) = 1
            /\ LET summary == Get(body[r], "csvSummary")
                   prompt == calls[r][1].parts[1]
                   List(i) == Get(summary, ListSections[i].field)
                   Present(i) == Truthy(List(i)) /\ GtZero(LengthOf(List(i)))
                   At(i) == {k \in 1..Len(prompt) : prompt[k] = ListSections[i].title}
                   Start(i) == CHOOSE k \in At(i) : TRUE
                   End(i) == Start(i) + Len(List(i).a) + 1
                   Note == {k \in 1..Len(prompt) : prompt[k] = TruncationNote}
               IN  /\ \A i \in 1..3 :
                         IF Present(i)
                         THEN /\ Cardinality(At(i)) = 1
                              /\ End(i) < Len(prompt)
                              /\ \A j \in 1..Len(List(i).a) :
                                    prompt[Start(i) + j] =
                                        SectionLine(ListSections[i].field, List(i).a[j]).text[1]
                              /\ prompt[End(i)] = "\n"
                         ELSE At(i) = {}
                   /\ \A i, j \in 1..3 :
                         (i < j /\ Present(i) /\ Present(j)) => End(i) < Start(j)
                   /\ \A i \in 1..3 : \A k \in Note : Present(i) => End(i) < k
                   /\ Note \subseteq {Len(prompt) - 1}
                   /\ prompt[Len(prompt)] = InsightsClosing

(***************************************************************************)
(* C26.  Every model call carries one user message of one or two text      *)
(* parts.  A two-part route sends its fixed instruction as the first part  *)
(* and the promptContext of the request (after the route's label) as the   *)
(* second; a one-part route sends one part that holds the value of the     *)
(* request: the promptContext, the question of chat, the four fields of    *)
(* estimate, the prompt built from the summary of insights.  No call has   *)
(* zero parts or more than two.                                            *)
(***************************************************************************)
C26_OneOrTwoParts ==
    \A r \in DOMAIN pc :
        \A i \in 1..Len(calls[r]) :
            LET call == calls[r][i]
                rt == route[r]
                c == JsString(Get(body[r], "promptContext"))
                Holds(part, chunk) == \E k \in 1..Len(part) : part[k] = chunk
            IN  /\ call.role = "user"
                /\ Len(call.parts) \in {1, 2}
                /\ \A k \in 1..Len(call.parts) : Len(call.parts[k]) >= 1
                /\ Len(call.parts) = 2 <=> rt \in TwoPartRoutes
                /\ rt \in TwoPartRoutes =>
                      /\ call.parts[1] = <<Instruction(rt)>>
                      /\ call.parts[2] = <<ContextLabel(rt) \o c>>
                /\ rt = "insights" =>
                      call.parts[1] = formatSummaryForGemini(Get(body[r], "csvSummary")).text
                /\ rt = "estimate" =>
                      Holds(call.parts[1],
                            "\"Estimate the monthly cost for an AWS "
                               \o JsString(Get(body[r], "resourceType"))
                               \o " of size " \o JsString(Get(body[r], "size"))
                               \o " in the " \o JsString(Get(body[r], "region"))
                               \o " region, running for approximately "
                               \o JsString(Get(body[r], "duration")) \o " hours/month.\"\n")
                /\ rt = "chat" =>
                      \/ Holds(call.parts[1], "\n\nUser's question: \""
                                  \o JsString(Get(body[r], "userQuestion")) \o "\"")
                      \/ Holds(call.parts[1],
                               "\"" \o JsString(Get(body[r], "userQuestion")) \o "\"\n")
                /\ rt = "security-policy-explainer" =>
                      \/ Holds(call.parts[1], "Policy to explain:\n(json fence)\n" \o c \o "\n(fence)")
                      \/ Holds(call.parts[1], "User's Policy Request: \"" \o c \o "\"")
                /\ rt \notin TwoPartRoutes \cup CoreRoutes \cup {"security-policy-explainer"} =>
                      Holds(call.parts[1], ContextLabel(rt) \o "\"" \o c \o "\"")

C26_Witness ==
    /\ \E r \in DOMAIN pc :
          /\ route[r] = "recommendation"
          /\ Len(calls[r]) = 1
          /\ Len(calls[r][1].parts) = 2
          /\ calls[r][1].parts[2] = <<"Opportunity Details: rightsize the idle instances">>

(***************************************************************************)
(* C27.  A 500 is sent only after the model call of the request was made   *)
(* and failed (it rejected, or its response gave no text): every request   *)
(* that was sent a 500 has made its generateContent call, a               *)
(* cloud-career-guide or security-compliance request whose promptContext   *)
(* is a truthy value that is not a string included.                        *)
(* The code contradicts it: for such a promptContext the diagnostic log    *)
(* before the call throws inside the try block, and the catch block sends  *)
(* the 500 of a call that was never made.                                  *)
(***************************************************************************)
C27_No500WithoutCall ==
    \A r \in DOMAIN pc :
        \A i \in 1..Len(sent[r]) :
            sent[r][i].status = 500 =>
                /\ Len(calls[r]) = 1
                /\ result[r].kind \in {"rejected", "blocked"}

(***************************************************************************)
(* C28.  On every promptContext route the body of a 500 always holds a     *)
(* string geminiErrorDetail: the fixed text 'No specific Gemini error      *)
(* response.' when the error has no response attached, the serialised      *)
(* candidates otherwise, also when the error has a response without        *)
(* candidates.  On insights, estimate and chat the body of a 500 never     *)
(* holds geminiErrorDetail.                                                *)
(* The code contradicts it: JSON.stringify of the missing candidates is    *)
(* undefined, and res.json leaves the key out.                             *)
(***************************************************************************)
C28_ErrorDetailAlwaysString ==
    \A r \in DOMAIN pc :
        (pc[r] = "Failed" /\ Len(sent[r]) >= 1) =>
            LET resp == sent[r][Len(sent[r])].body
                e == IF Len(calls[r]) = 1
                     THEN result[r].error
                     ELSE TypeError("promptContext.substring is not a function")
            IN  IF route[r] \in CoreRoutes
                THEN "geminiErrorDetail" \notin DOMAIN resp
                ELSE /\ "geminiErrorDetail" \in DOMAIN resp
                     /\ resp["geminiErrorDetail"].t = "string"
                     /\ ~Truthy(e.response) =>
                           resp["geminiErrorDetail"] = Str("No specific Gemini error response.")
                     /\ Truthy(e.response) =>
                           resp["geminiErrorDetail"] =
                               JSONStringify(Get(e.response, "candidates"))

(***************************************************************************)
(* C29.  Chat prompt builder of the current revision (the second revision  *)
(* of src/app.js and part_000): the prompt begins with the fixed assistant *)
(* preamble and ends with the question of the user; the paragraph that     *)
(* says billing data was uploaded is in it exactly when csvContext is      *)
(* present and csvContext.hasData is truthy; a csvContext without hasData  *)
(* gives the prompt of a request without csvContext.                       *)
(***************************************************************************)
C29_ChatPromptShape ==
    \A r \in DOMAIN pc :
        (route[r] = "chat" /\ rev # "r1" /\ Len(calls[r]) = 1) =>
            LET prompt == calls[r][1].parts[1]
                ctx == Get(body[r], "csvContext")
                question == "\n\nUser's question: \""
                               \o JsString(Get(body[r], "userQuestion")) \o "\""
                indicator == "\n\nUser has uploaded AWS billing data. (...) Data exists for "
                                \o JsString(Get(ctx, "numRowsProcessed")) \o " line items."
            IN  /\ prompt[1] = ChatPreamble
                /\ prompt[Len(prompt)] = question
                /\ IF Truthy(ctx) /\ Truthy(Get(ctx, "hasData"))
                   THEN prompt = <<ChatPreamble, indicator, question>>
                   ELSE prompt = <<ChatPreamble, question>>

C29_Witness ==
    \E r \in DOMAIN pc :
        /\ route[r] = "chat"
        /\ rev = "r2"
        /\ Len(calls[r]) = 1
        /\ Truthy(Get(body[r], "csvContext"))
        /\ ~Truthy(Get(Get(body[r], "csvContext"), "hasData"))
        /\ calls[r][1].parts[1] =
              <<ChatPreamble, "\n\nUser's question: \"Why is S3 so costly?\"">>

(***************************************************************************)
(* C30.  Insights prompt builder: the prompt it returns says 'Data         *)
(* available' and has the 'Total Unblended Cost' line (right after it)     *)
(* exactly when summary.totalOverallCost is truthy; for a total of 0 or an *)
(* absent total it says 'No data' and has no total line (the next chunk is *)
(* a section title, the truncation note or the closing), also when a list  *)
(* section is rendered.                                                    *)
(***************************************************************************)
C30_TotalLine ==
    \A r \in DOMAIN pc :
        (route[r] = "insights" /\ Len(calls[r]) = 1) =>
            LET prompt == calls[r][1].parts[1]
                total == Get(Get(body[r], "csvSummary"), "totalOverallCost")
            IN  /\ prompt[1] = InsightsHeader
                /\ IF Truthy(total)
                   THEN /\ prompt[2] = "Overall Billing Period: Data available\n"
                        /\ prompt[3] = "Total Unblended Cost: $" \o JsString(total) \o "\n\n"
                   ELSE /\ prompt[2] = "Overall Billing Period: No data\n"
                        /\ prompt[3] \in {ServiceTitle, ExpensiveTitle, IdleTitle,
                                          TruncationNote, InsightsClosing}

C30_Witness ==
    \E r \in DOMAIN pc :
        /\ route[r] = "insights"
        /\ Len(calls[r]) = 1
        /\ Get(Get(body[r], "csvSummary"), "totalOverallCost") = Num(0)
        /\ calls[r][1].parts[1][2] = "Overall Billing Period: No data\n"
        /\ calls[r][1].parts[1][3] = IdleTitle

====
